---- MODULE Spec2Model ----
(***************************************************************************)
(* env-guard: schema compilation (defineSchema), type coercion             *)
(* (coerceValue), the built-in validators and the validation engine        *)
(* (validateEnv) of src/src/index.ts.                                      *)
(*                                                                         *)
(* JavaScript strings that carry user data are sequences of one-character  *)
(* strings; the fixed text of a message is kept as one chunk, so a message *)
(* is the concatenation (\o) of chunks and user strings, as the template   *)
(* literals of the source build it.                                        *)
(***************************************************************************)
EXTENDS Integers, Sequences, FiniteSets, TLC

--------------------------------------------------------------------------
(* JavaScript values *)

\* A number is n/d with d a power of ten; d = 0 stands for the non-finite
\* numbers: 0/0 is NaN, 1/0 is Infinity, -1/0 is -Infinity.
Val(t, s, n, d, b) == [t |-> t, s |-> s, n |-> n, d |-> d, b |-> b]
Undefined == Val("undefined", <<>>, 0, 1, FALSE)
Null == Val("null", <<>>, 0, 1, FALSE)
Obj == Val("object", <<>>, 0, 1, FALSE)
Str(s) == Val("string", s, 0, 1, FALSE)
Num(n, d) == Val("number", <<>>, n, d, FALSE)
NumI(n) == Num(n, 1)
Bool(b) == Val("boolean", <<>>, 0, 1, b)
NaN == Num(0, 0)
True == Bool(TRUE)
False == Bool(FALSE)

\* typeof
TypeOf(v) == IF v.t = "null" THEN "object" ELSE v.t

\* ToBoolean, as used by ||, && and if
Truthy(v) ==
  CASE v.t = "undefined" -> FALSE
    [] v.t = "null" -> FALSE
    [] v.t = "string" -> v.s # <<>>
    [] v.t = "number" -> v.n # 0
    [] v.t = "boolean" -> v.b
    [] OTHER -> TRUE

IsNaN(v) == v.t = "number" /\ v.d = 0 /\ v.n = 0
IsFinite(v) == v.t = "number" /\ v.d # 0
IsInteger(v) == v.t = "number" /\ v.d = 1

\* a < b on finite numbers
NumLess(a, b) == a.n * b.d < b.n * a.d

--------------------------------------------------------------------------
(* Strings *)

LowerLetters == <<"a","b","c","d","e","f","g","h","i","j","k","l","m",
                  "n","o","p","q","r","s","t","u","v","w","x","y","z">>
UpperLetters == <<"A","B","C","D","E","F","G","H","I","J","K","L","M",
                  "N","O","P","Q","R","S","T","U","V","W","X","Y","Z">>
Digits == <<"0","1","2","3","4","5","6","7","8","9">>

IsLower(c) == \E i \in 1..26 : LowerLetters[i] = c
IsUpper(c) == \E i \in 1..26 : UpperLetters[i] = c
IsLetter(c) == IsLower(c) \/ IsUpper(c)
IsDigit(c) == \E i \in 1..10 : Digits[i] = c
DigitVal(c) == (CHOOSE i \in 1..10 : Digits[i] = c) - 1
IsSpace(c) == c \in {" ", "\t", "\n", "\r"}

UpperChar(c) == IF IsLower(c) THEN UpperLetters[CHOOSE i \in 1..26 : LowerLetters[i] = c] ELSE c
LowerChar(c) == IF IsUpper(c) THEN LowerLetters[CHOOSE i \in 1..26 : UpperLetters[i] = c] ELSE c

\* String.prototype.toUpperCase / toLowerCase
toUpperCase(s) == [i \in 1..Len(s) |-> UpperChar(s[i])]
toLowerCase(s) == [i \in 1..Len(s) |-> LowerChar(s[i])]

RECURSIVE TrimStart(_)
TrimStart(s) == IF s # <<>> /\ IsSpace(Head(s)) THEN TrimStart(Tail(s)) ELSE s

RECURSIVE TrimEnd(_)
TrimEnd(s) == IF s # <<>> /\ IsSpace(s[Len(s)]) THEN TrimEnd(SubSeq(s, 1, Len(s) - 1)) ELSE s

\* String.prototype.trim
trim(s) == TrimEnd(TrimStart(s))

\* Array.prototype.includes on a sequence
includes(seq, x) == \E i \in 1..Len(seq) : seq[i] = x

\* s starts with the prefix p
StartsWith(s, p) == Len(s) >= Len(p) /\ SubSeq(s, 1, Len(p)) = p

\* s contains p as a contiguous part
Contains(s, p) == \E i \in 0..(Len(s) - Len(p)) : SubSeq(s, i + 1, i + Len(p)) = p

RECURSIVE Pow10(_)
Pow10(k) == IF k = 0 THEN 1 ELSE 10 * Pow10(k - 1)

\* n/d with trailing zeros of the fraction removed
RECURSIVE Normalize(_, _)
Normalize(n, d) == IF d > 1 /\ n % 10 = 0 THEN Normalize(n \div 10, d \div 10) ELSE Num(n, d)

\* the length of the longest run of digits at the start of s
RECURSIVE DigitRun(_)
DigitRun(s) == IF s # <<>> /\ IsDigit(Head(s)) THEN 1 + DigitRun(Tail(s)) ELSE 0

\* the natural number written by a sequence of digits (0 for none)
RECURSIVE DigitsVal(_)
DigitsVal(s) == IF s = <<>> THEN 0 ELSE 10 * DigitsVal(SubSeq(s, 1, Len(s) - 1)) + DigitVal(s[Len(s)])

Drop(s, k) == SubSeq(s, k + 1, Len(s))
Take(s, k) == SubSeq(s, 1, k)

InfinityText == <<"I","n","f","i","n","i","t","y">>

\* the number sgn * mant / 10^nf scaled by ten to the exponent ex (negative
\* when eNeg)
ScaleNumber(sgn, mant, nf, eNeg, ex) ==
  IF eNeg THEN Normalize(sgn * mant, Pow10(nf + ex))
  ELSE IF ex >= nf THEN Num(sgn * mant * Pow10(ex - nf), 1)
  ELSE Normalize(sgn * mant, Pow10(nf - ex))

\* the exponent part: s5 is what follows e and its sign
ParseExponentDigits(sgn, mant, nf, eNeg, s5) ==
  ScaleNumber(sgn, mant, nf, eNeg, DigitsVal(Take(s5, DigitRun(s5))))

\* s3 is what follows the mantissa sgn * mant / 10^nf
ParseExponent(sgn, mant, nf, s3) ==
  IF Len(s3) >= 2 /\ s3[1] \in {"e", "E"} /\ s3[2] \in {"+", "-"}
  THEN ParseExponentDigits(sgn, mant, nf, s3[2] = "-", Drop(s3, 2))
  ELSE IF s3 # <<>> /\ s3[1] \in {"e", "E"}
  THEN ParseExponentDigits(sgn, mant, nf, FALSE, Drop(s3, 1))
  ELSE Normalize(sgn * mant, Pow10(nf))

\* s1 starts with ni digits and then, when hasDot, a point and nf digits
ParseMantissa(sgn, s1, ni, hasDot, nf) ==
  IF ni + nf = 0 THEN NaN
  ELSE ParseExponent(sgn,
                     DigitsVal(Take(s1, ni)) * Pow10(nf) + DigitsVal(SubSeq(s1, ni + 2, ni + 1 + nf)),
                     nf,
                     Drop(s1, IF hasDot THEN ni + 1 + nf ELSE ni))

ParseFraction(sgn, s1, ni) ==
  IF Len(s1) > ni /\ s1[ni + 1] = "."
  THEN ParseMantissa(sgn, s1, ni, TRUE, DigitRun(Drop(s1, ni + 1)))
  ELSE ParseMantissa(sgn, s1, ni, FALSE, 0)

ParseUnsigned(sgn, s1) ==
  IF StartsWith(s1, InfinityText) THEN Num(sgn, 0)
  ELSE ParseFraction(sgn, s1, DigitRun(s1))

ParseSigned(s0) ==
  IF s0 # <<>> /\ Head(s0) \in {"+", "-"}
  THEN ParseUnsigned(IF Head(s0) = "-" THEN -1 ELSE 1, Tail(s0))
  ELSE ParseUnsigned(1, s0)

\* parseFloat giving NaN unless the whole string is made of digits, signs and
\* points
parseFloat_WholeString(str) ==
  IF \E i \in 1..Len(str) : ~(IsDigit(str[i]) \/ str[i] \in {"+", "-", "."}) THEN NaN
  ELSE ParseSigned(TrimStart(str))

\* parseFloat: leading white space is skipped, then the longest prefix that
\* is a decimal literal (sign, digits, fraction, exponent) or Infinity is
\* converted; NaN when there is no such prefix.
parseFloat(str) == ParseSigned(TrimStart(str))

ParseIntDigits(sgn, s1) ==
  IF DigitRun(s1) = 0 THEN NaN ELSE NumI(sgn * DigitsVal(Take(s1, DigitRun(s1))))

ParseIntSigned(s0) ==
  IF s0 # <<>> /\ Head(s0) \in {"+", "-"}
  THEN ParseIntDigits(IF Head(s0) = "-" THEN -1 ELSE 1, Tail(s0))
  ELSE ParseIntDigits(1, s0)

\* parseInt(s, 10)
parseInt(str) == ParseIntSigned(TrimStart(str))

\* the decimal digits of a natural number
RECURSIVE NatToStr(_)
NatToStr(n) == IF n < 10 THEN <<Digits[n + 1]>> ELSE NatToStr(n \div 10) \o <<Digits[(n % 10) + 1]>>

\* the digits of n left-padded with zeros to width w
RECURSIVE PadDigits(_, _)
PadDigits(s, w) == IF Len(s) >= w THEN s ELSE PadDigits(<<"0">> \o s, w)

RECURSIVE Log10(_)
Log10(d) == IF d <= 1 THEN 0 ELSE 1 + Log10(d \div 10)

\* the text of a finite number a/d, a >= 0
UnsignedToStr(a, d) ==
  IF d = 1 THEN NatToStr(a)
  ELSE NatToStr(a \div d) \o <<".">> \o PadDigits(NatToStr(a % d), Log10(d))

NumberToStr(n, d) ==
  IF d = 0 THEN (IF n = 0 THEN <<"N","a","N">>
                 ELSE IF n > 0 THEN InfinityText ELSE <<"-">> \o InfinityText)
  ELSE IF n < 0 THEN <<"-">> \o UnsignedToStr(-n, d)
  ELSE UnsignedToStr(n, d)

\* String(v) / v.toString() for the primitive values
JsString(v) ==
  CASE v.t = "string" -> v.s
    [] v.t = "boolean" -> IF v.b THEN <<"t","r","u","e">> ELSE <<"f","a","l","s","e">>
    [] v.t = "undefined" -> <<"u","n","d","e","f","i","n","e","d">>
    [] v.t = "null" -> <<"n","u","l","l">>
    [] v.t = "number" -> NumberToStr(v.n, v.d)
    [] OTHER -> <<"[object Object]">>

--------------------------------------------------------------------------
(* Errors *)

\* the text "value" and "TypeError" that coerceValue passes as field and as
\* sixth constructor argument
ValueText == <<"v","a","l","u","e">>
TypeErrorText == <<"T","y","p","e","E","r","r","o","r">>

\* ValidationError's constructor: envVarName || field, type defaulting to
\* FormatError.  expected, received, envVarName and type are Undefined when
\* the caller omits them.
ValidationError(field, message, value, expected, received, envVarName, type) ==
  [ve |-> TRUE, field |-> field, message |-> message, value |-> value,
   expected |-> expected, received |-> received,
   envVarName |-> IF Truthy(envVarName) THEN envVarName.s ELSE field,
   type |-> IF type = Undefined THEN "FormatError" ELSE JsString(type)[1]]

\* an exception that is not a ValidationError: new Error(message)
Error(message) ==
  [ve |-> FALSE, field |-> <<>>, message |-> message, value |-> Undefined,
   expected |-> Undefined, received |-> Undefined, envVarName |-> <<>>, type |-> "Error"]

NoError == Error(<<>>)

\* the outcome of a call that may throw
Return(v) == [thrown |-> FALSE, v |-> v, e |-> NoError]
Throw(e) == [thrown |-> TRUE, v |-> Undefined, e |-> e]

\* an entry of the errors list (ValidationErrorResult)
ErrorResult(field, message, value, expected, received, envVarName, type) ==
  [field |-> field, message |-> message, value |-> value, expected |-> expected,
   received |-> received, envVarName |-> envVarName, type |-> type]

--------------------------------------------------------------------------
(* Type coercion *)

\* the result of parseFloat(String(value))
CoerceParsed(value, numValue, failMsg) ==
  IF IsNaN(numValue) \/ ~IsFinite(numValue)
  THEN Throw(ValidationError(ValueText, failMsg, value,
                             Str(<<"numeric string">>), Str(JsString(value)),
                             Str(TypeErrorText), Undefined))
  ELSE Return(numValue)

CoerceNumeric(value, invalidMsg, failMsg) ==
  IF TypeOf(value) = "number"
  THEN IF IsNaN(value) \/ ~IsFinite(value)
       THEN Throw(ValidationError(ValueText, invalidMsg, value,
                                  Str(<<"valid number">>), Undefined, Undefined, Undefined))
       ELSE Return(value)
  ELSE CoerceParsed(value, parseFloat(JsString(value)), failMsg)

TruthyValues == << <<"t","r","u","e">>, <<"1">>, <<"y","e","s">>, <<"o","n">> >>
FalsyValues == << <<"f","a","l","s","e">>, <<"0">>, <<"n","o">>, <<"o","f","f">> >>

\* CoerceBoolean comparing the string as it was given
CoerceBoolean_AsGiven(value, stringValue) ==
  IF includes(TruthyValues, JsString(value)) THEN Return(True)
  ELSE IF includes(FalsyValues, JsString(value)) THEN Return(False)
  ELSE Throw(ValidationError(ValueText, <<"Cannot coerce to boolean">>, value,
                             Str(<<"true/false/1/0/yes/no/on/off">>),
                             Str(stringValue), Str(TypeErrorText), Undefined))

\* stringValue is String(value).toLowerCase().trim()
CoerceBoolean(value, stringValue) ==
  IF includes(TruthyValues, stringValue) THEN Return(True)
  ELSE IF includes(FalsyValues, stringValue) THEN Return(False)
  ELSE Throw(ValidationError(ValueText, <<"Cannot coerce to boolean">>, value,
                             Str(<<"true/false/1/0/yes/no/on/off">>),
                             Str(stringValue), Str(TypeErrorText), Undefined))

coerceValue(value, type) ==
  IF value = Undefined \/ value = Null THEN Return(value)
  ELSE IF TypeOf(value) = "object"
  THEN Throw(ValidationError(ValueText, <<"Cannot coerce object to primitive type">>, value,
                             Str(<<"string, number, or boolean">>), Str(<<"object">>),
                             Str(TypeErrorText), Undefined))
  ELSE CASE type = "string" ->
              Return(IF TypeOf(value) = "string" THEN Str(trim(value.s)) ELSE Str(JsString(value)))
         [] type = "number" ->
              CoerceNumeric(value, <<"Number value is invalid (NaN or infinite)">>,
                            <<"Cannot coerce to number">>)
         [] type = "boolean" ->
              IF TypeOf(value) = "boolean" THEN Return(value)
              ELSE CoerceBoolean(value, trim(toLowerCase(JsString(value))))
         [] type = "port" ->
              CoerceNumeric(value, <<"Port value is invalid (NaN or infinite)">>,
                            <<"Cannot coerce to port number">>)
         [] OTHER -> Return(value)

--------------------------------------------------------------------------
(* Built-in validators: each returns True or a string, or throws *)

\* the position of the first element of s that is in the set cs, or 0
RECURSIVE IndexOfAny(_, _, _)
IndexOfAny(s, cs, i) ==
  IF i > Len(s) THEN 0 ELSE IF s[i] \in cs THEN i ELSE IndexOfAny(s, cs, i + 1)

\* the position of the last element of s that equals c, or 0
RECURSIVE LastIndexOf(_, _, _)
LastIndexOf(s, c, i) ==
  IF i = 0 THEN 0 ELSE IF s[i] = c THEN i ELSE LastIndexOf(s, c, i - 1)

AllIn(s, P(_)) == \A i \in 1..Len(s) : P(s[i])

IsSchemeChar(c) == IsLetter(c) \/ IsDigit(c) \/ c \in {"+", "-", "."}
IsAlnum(c) == IsLetter(c) \/ IsDigit(c)
IsHostChar(c) == IsAlnum(c) \/ c \in {"-", ".", "_"}

SpecialSchemes == { <<"h","t","t","p">>, <<"h","t","t","p","s">>, <<"f","t","p">>,
                    <<"w","s">>, <<"w","s","s">> }

RECURSIVE DropSlashes(_)
DropSlashes(s) == IF s # <<>> /\ Head(s) \in {"/", "\\"} THEN DropSlashes(Tail(s)) ELSE s

BadUrl == [ok |-> FALSE, protocol |-> <<>>, hostname |-> <<>>]
GoodUrl(scheme, hostname) == [ok |-> TRUE, protocol |-> scheme \o <<":">>, hostname |-> hostname]

\* s up to, and s after, position i; all of s when i = 0
UpTo(s, i) == IF i = 0 THEN s ELSE Take(s, i - 1)
After(s, i) == IF i = 0 THEN <<>> ELSE Drop(s, i)

\* the host of a special scheme is not empty and made of host characters,
\* its port of digits; the host of another scheme has no forbidden character
UrlHost(scheme, special, host, port) ==
  IF special
  THEN IF host = <<>> \/ ~AllIn(host, IsHostChar) \/ ~AllIn(port, IsDigit) THEN BadUrl
       ELSE GoodUrl(scheme, toLowerCase(host))
  ELSE IF \E i \in 1..Len(host) : host[i] \in {" ", "<", ">", "^", "|"} THEN BadUrl
       ELSE GoodUrl(scheme, host)

UrlHostPort(scheme, special, hostport, colon) ==
  UrlHost(scheme, special, UpTo(hostport, colon), After(hostport, colon))

\* the authority without its user information
UrlAuthority(scheme, special, hostport) ==
  UrlHostPort(scheme, special, hostport, IndexOfAny(hostport, {":"}, 1))

\* the authority is s up to the first of the characters stops
UrlAuthorityIn(scheme, special, s, stop) ==
  UrlAuthority(scheme, special,
               Drop(UpTo(s, stop), LastIndexOf(UpTo(s, stop), "@", Len(UpTo(s, stop)))))

UrlAfterScheme(scheme, rest) ==
  IF ~AllIn(scheme, IsSchemeChar) THEN BadUrl
  ELSE IF scheme \in SpecialSchemes
  THEN UrlAuthorityIn(scheme, TRUE, DropSlashes(rest),
                      IndexOfAny(DropSlashes(rest), {"/", "\\", "?", "#"}, 1))
  ELSE IF StartsWith(rest, <<"/", "/">>)
  THEN UrlAuthorityIn(scheme, FALSE, Drop(rest, 2), IndexOfAny(Drop(rest, 2), {"/", "?", "#"}, 1))
  ELSE GoodUrl(scheme, <<>>)

UrlScheme(input, colon) ==
  IF colon <= 1 \/ ~IsLetter(input[1]) THEN BadUrl
  ELSE UrlAfterScheme(toLowerCase(Take(input, colon - 1)), Drop(input, colon))

\* new URL(input) without a base: the scheme up to the first ":" must start
\* with a letter; a special scheme needs a non-empty host made of host
\* characters and, when a port is written, a port of digits.  The result is
\* the protocol (lower-cased scheme and ":") and the hostname; ok is FALSE
\* where the constructor throws.
ParseUrl(input) == UrlScheme(input, IndexOfAny(input, {":"}, 1))

DefaultProtocols == << <<"h","t","t","p",":">>, <<"h","t","t","p","s",":">>, <<"f","t","p",":">> >>

\* join the strings of a sequence with ", "
RECURSIVE JoinComma(_)
JoinComma(ss) ==
  IF ss = <<>> THEN <<>>
  ELSE IF Len(ss) = 1 THEN ss[1]
  ELSE ss[1] \o <<",", " ">> \o JoinComma(Tail(ss))

\* options: protocols is a sequence of protocol strings, or <<>> when the
\* option is absent or empty-and-falsy is not possible ([] is truthy, see
\* UrlProtocols); requireProtocol is a value.
UrlProtocols(hasProtocols, protocols) == IF hasProtocols THEN protocols ELSE DefaultProtocols

\* lines 364-380, after new URL(trimmedUrl)
CheckParsedUrl(parsedUrl, protocols, requireProtocol) ==
  IF ~parsedUrl.ok THEN Return(Str(<<"Invalid URL format">>))
  ELSE IF ~includes(protocols, parsedUrl.protocol)
  THEN Return(Str(<<"Protocol must be one of: ">> \o JoinComma(protocols)))
  ELSE IF requireProtocol # False /\ parsedUrl.protocol = <<>>
  THEN Return(Str(<<"URL must include protocol (http://, https://, etc.)">>))
  ELSE IF parsedUrl.hostname # <<>> /\ Len(parsedUrl.hostname) > 253
  THEN Return(Str(<<"Domain name is too long">>))
  ELSE Return(True)

validateUrl(url, hasProtocols, protocolsOpt, requireProtocol) ==
  IF TypeOf(url) # "string" THEN Return(Str(<<"Value must be a string">>))
  ELSE IF trim(url.s) = <<>> THEN Return(Str(<<"URL cannot be empty">>))
  ELSE CheckParsedUrl(ParseUrl(trim(url.s)), UrlProtocols(hasProtocols, protocolsOpt),
                      requireProtocol)

\* lines 393-403, for the converted port
\* CheckPortNumber with the bounds 0 and 65536
CheckPortNumber_WiderRange(port) ==
  IF TypeOf(port) # "number" \/ IsNaN(port)
  THEN Return(Str(<<"Port must be a valid number">>))
  ELSE IF ~IsInteger(port) \/ NumLess(port, NumI(0)) \/ NumLess(NumI(65536), port)
  THEN Return(Str(<<"Port must be an integer between 1 and 65535">>))
  ELSE Return(True)

\* lines 396-404
CheckPortNumber(port) ==
  IF TypeOf(port) # "number" \/ IsNaN(port)
  THEN Return(Str(<<"Port must be a valid number">>))
  ELSE IF ~IsInteger(port) \/ NumLess(port, NumI(1)) \/ NumLess(NumI(65535), port)
  THEN Return(Str(<<"Port must be an integer between 1 and 65535">>))
  ELSE Return(True)

validatePort(port) ==
  CheckPortNumber(IF TypeOf(port) = "string" THEN parseInt(port.s) ELSE port)

\* the characters of the local part (the grave accent, which the pattern also
\* allows, cannot be written in a string here and occurs in no input)
IsEmailLocalChar(c) ==
  IsAlnum(c) \/ c \in {".", "!", "#", "$", "%", "&", "'", "*", "+", "/", "=", "?", "^", "_", "{", "|", "}", "~", "-"}

\* split s at every occurrence of c
RECURSIVE Split(_, _)
Split(s, c) ==
  LET i == IndexOfAny(s, {c}, 1)
  IN  IF i = 0 THEN <<s>> ELSE <<Take(s, i - 1)>> \o Split(Drop(s, i), c)

\* [a-zA-Z0-9](?:[a-zA-Z0-9-]{0,61}[a-zA-Z0-9])?
IsDomainLabel(l) ==
  /\ Len(l) >= 1 /\ Len(l) <= 63
  /\ IsAlnum(l[1]) /\ IsAlnum(l[Len(l)])
  /\ \A i \in 1..Len(l) : IsAlnum(l[i]) \/ l[i] = "-"

AllDomainLabels(labels) == \A i \in 1..Len(labels) : IsDomainLabel(labels[i])

\* s with its first @ at position at
EmailAt(s, at) ==
  at > 1 /\ AllIn(Take(s, at - 1), IsEmailLocalChar) /\ AllDomainLabels(Split(Drop(s, at), "."))

\* emailPattern.test
EmailPatternTest(s) == EmailAt(s, IndexOfAny(s, {"@"}, 1))

CountOf(s, c) == Cardinality({i \in 1..Len(s) : s[i] = c})

\* lines 415-435
CheckTrimmedEmail(trimmedEmail) ==
  IF trimmedEmail = <<>> THEN Return(Str(<<"Email cannot be empty">>))
  ELSE IF ~EmailPatternTest(trimmedEmail) THEN Return(Str(<<"Invalid email format">>))
  ELSE IF includes(trimmedEmail, " ") THEN Return(Str(<<"Email cannot contain spaces">>))
  ELSE IF CountOf(trimmedEmail, "@") # 1
  THEN Return(Str(<<"Email must contain exactly one @ symbol">>))
  ELSE Return(True)

validateEmail(email) ==
  IF TypeOf(email) # "string" THEN Return(Str(<<"Email must be a string">>))
  ELSE CheckTrimmedEmail(trim(email.s))

\* [0-9]|[1-9][0-9]|1[0-9]{2}|2[0-4][0-9]|25[0-5]
IsOctet(o) ==
  /\ Len(o) \in 1..3 /\ AllIn(o, IsDigit)
  /\ (Len(o) > 1 => o[1] # "0")
  /\ DigitsVal(o) <= 255

AllOctets(parts) == Len(parts) = 4 /\ \A i \in 1..4 : IsOctet(parts[i])

Ipv4PatternTest(s) == AllOctets(Split(s, "."))

IsHexDigit(c) == IsDigit(c) \/ c \in {"a","b","c","d","e","f","A","B","C","D","E","F"}
IsHextet(h) == Len(h) \in 1..4 /\ AllIn(h, IsHexDigit)

HextetsIn(parts) ==
  IF \A i \in 1..Len(parts) : IsHextet(parts[i]) THEN Len(parts) ELSE -1

\* the number of groups of a colon-separated run of hextets (0 for the empty
\* string), or -1 when some group is not a hextet
HextetCount(s) == IF s = <<>> THEN 0 ELSE HextetsIn(Split(s, ":"))

\* a and b groups around the "::"
Ipv6Compressed(a, b) == a >= 0 /\ b >= 0 /\ a + b <= 7

\* dbl is the set of the positions of "::" in s
Ipv6Groups(s, dbl) ==
  IF dbl = {} THEN HextetCount(s) = 8
  ELSE /\ Cardinality(dbl) = 1
       /\ \A p \in dbl : Ipv6Compressed(HextetCount(Take(s, p - 1)), HextetCount(Drop(s, p + 1)))

\* ipv6Pattern.test: eight groups, or one "::" with at most seven groups
\* around it
Ipv6PatternTest(s) ==
  Ipv6Groups(s, {i \in 1..(Len(s) - 1) : s[i] = ":" /\ s[i + 1] = ":"})

\* lines 446-471
CheckTrimmedIp(trimmedIp, version) ==
  IF trimmedIp = <<>> THEN Return(Str(<<"IP cannot be empty">>))
  ELSE IF version \in {Str(<<"ipv4">>), Str(<<"any">>)} /\ Ipv4PatternTest(trimmedIp)
  THEN Return(True)
  ELSE IF version \in {Str(<<"ipv6">>), Str(<<"any">>)} /\ Ipv6PatternTest(trimmedIp)
  THEN Return(True)
  ELSE IF version = Str(<<"ipv4">>) THEN Return(Str(<<"Invalid IPv4 address format">>))
  ELSE IF version = Str(<<"ipv6">>) THEN Return(Str(<<"Invalid IPv6 address format">>))
  ELSE Return(Str(<<"Invalid IP address format (must be IPv4 or IPv6)">>))

\* version is a value: Undefined when the option is absent
validateIp(ip, versionOpt) ==
  IF TypeOf(ip) # "string" THEN Return(Str(<<"IP must be a string">>))
  ELSE CheckTrimmedIp(trim(ip.s), IF Truthy(versionOpt) THEN versionOpt ELSE Str(<<"any">>))

JFail == [ok |-> FALSE, rest |-> <<>>]
JOk(rest) == [ok |-> TRUE, rest |-> rest]

\* the rest of a JSON string after its opening quote
RECURSIVE JsonStringBody(_)
JsonStringBody(s) ==
  IF s = <<>> THEN JFail
  ELSE IF Head(s) = "\"" THEN JOk(Tail(s))
  ELSE IF Head(s) = "\\"
  THEN IF Len(s) >= 2 /\ s[2] \in {"\"", "\\", "/", "b", "f", "n", "r", "t"}
       THEN JsonStringBody(Drop(s, 2))
       ELSE IF Len(s) >= 6 /\ s[2] = "u" /\ AllIn(SubSeq(s, 3, 6), IsHexDigit)
       THEN JsonStringBody(Drop(s, 6))
       ELSE JFail
  ELSE IF Head(s) \in {"\t", "\n", "\r"} THEN JFail
  ELSE JsonStringBody(Tail(s))

JsonExponentDigits(s) == IF DigitRun(s) = 0 THEN JFail ELSE JOk(Drop(s, DigitRun(s)))

JsonExponent(s) ==
  IF s # <<>> /\ Head(s) \in {"e", "E"}
  THEN JsonExponentDigits(IF Len(s) >= 2 /\ s[2] \in {"+", "-"} THEN Drop(s, 2) ELSE Tail(s))
  ELSE JOk(s)

JsonFraction(s) ==
  IF s # <<>> /\ Head(s) = "."
  THEN IF DigitRun(Tail(s)) = 0 THEN JFail ELSE JsonExponent(Drop(s, 1 + DigitRun(Tail(s))))
  ELSE JsonExponent(s)

JsonInteger(s) ==
  IF s # <<>> /\ Head(s) = "0" THEN JsonFraction(Tail(s))
  ELSE IF DigitRun(s) = 0 THEN JFail
  ELSE JsonFraction(Drop(s, DigitRun(s)))

\* -? (0 | [1-9][0-9]*) (\.[0-9]+)? ([eE][+-]?[0-9]+)?
JsonNumber(s) == JsonInteger(IF s # <<>> /\ Head(s) = "-" THEN Tail(s) ELSE s)

RECURSIVE JsonValue(_)
RECURSIVE JsonElements(_)
RECURSIVE JsonMembers(_)

\* what follows "[" (close is "]") or "{" (close is "}") and white space
JsonBody(r, close) ==
  IF r # <<>> /\ Head(r) = close THEN JOk(Tail(r))
  ELSE IF close = "]" THEN JsonElements(r)
  ELSE JsonMembers(r)

\* a JSON value at the start of s, which does not start with white space
JsonValueAt(s) ==
  IF s = <<>> THEN JFail
  ELSE IF StartsWith(s, <<"n","u","l","l">>) THEN JOk(Drop(s, 4))
  ELSE IF StartsWith(s, <<"t","r","u","e">>) THEN JOk(Drop(s, 4))
  ELSE IF StartsWith(s, <<"f","a","l","s","e">>) THEN JOk(Drop(s, 5))
  ELSE IF Head(s) = "\"" THEN JsonStringBody(Tail(s))
  ELSE IF Head(s) = "[" THEN JsonBody(TrimStart(Tail(s)), "]")
  ELSE IF Head(s) = "{" THEN JsonBody(TrimStart(Tail(s)), "}")
  ELSE JsonNumber(s)

\* one JSON value at the start of s (after white space); rest is what follows
JsonValue(s) == JsonValueAt(TrimStart(s))

\* after an element or a member: a comma and more, or the closing bracket
JsonSeparator(r, close) ==
  IF r = <<>> THEN JFail
  ELSE IF Head(r) = "," THEN (IF close = "]" THEN JsonElements(Tail(r)) ELSE JsonMembers(Tail(r)))
  ELSE IF Head(r) = close THEN JOk(Tail(r))
  ELSE JFail

JsonAfterValue(v, close) == IF ~v.ok THEN JFail ELSE JsonSeparator(TrimStart(v.rest), close)

JsonElements(s) == JsonAfterValue(JsonValue(s), "]")

JsonMemberValue(c) ==
  IF c = <<>> \/ Head(c) # ":" THEN JFail ELSE JsonAfterValue(JsonValue(Tail(c)), "}")

JsonMemberColon(ks) == IF ~ks.ok THEN JFail ELSE JsonMemberValue(TrimStart(ks.rest))

JsonMemberKey(k) ==
  IF k = <<>> \/ Head(k) # "\"" THEN JFail ELSE JsonMemberColon(JsonStringBody(Tail(k)))

JsonMembers(s) == JsonMemberKey(TrimStart(s))

JsonComplete(v) == v.ok /\ TrimStart(v.rest) = <<>>

\* JSON.parse(s) returns (TRUE) or throws a SyntaxError (FALSE)
JsonParses(s) == JsonComplete(JsonValue(s))

validateJson(jsonString) ==
  IF TypeOf(jsonString) # "string" THEN Return(Str(<<"JSON must be a string">>))
  ELSE IF trim(jsonString.s) = <<>> THEN Return(Str(<<"JSON cannot be empty">>))
  ELSE IF JsonParses(trim(jsonString.s)) THEN Return(True)
  ELSE Return(Str(<<"Invalid JSON format: ", "SyntaxError">>))

\* The RegExp objects of the schemas: NoPattern is undefined (the argument
\* was not passed), the others are /^[A-Z]{2}$/ and /[0-9]/.
NoPattern == "undefined"
PatternTwoUpper == "^[A-Z]{2}$"
PatternHasDigit == "[0-9]"
Patterns == {PatternTwoUpper, PatternHasDigit}

\* pattern.test(value)
PatternTest(pattern, value) ==
  IF pattern = PatternTwoUpper THEN Len(value) = 2 /\ AllIn(value, IsUpper)
  ELSE \E i \in 1..Len(value) : IsDigit(value[i])

validateRegex(value, pattern) ==
  IF TypeOf(value) # "string" THEN Return(Str(<<"Value must be a string for regex validation">>))
  ELSE IF pattern = NoPattern
  THEN Throw(Error(<<"Cannot read properties of undefined (reading 'test')">>))
  ELSE IF ~PatternTest(pattern, value.s)
  THEN Return(Str(<<"Value does not match the required pattern">>))
  ELSE Return(True)

\* validators.string; minLength and maxLength are Undefined when not given
ValidateString(value, minLength, maxLength) ==
  IF TypeOf(value) # "string" THEN Return(Str(<<"Value must be a string">>))
  ELSE IF minLength # Undefined /\ NumLess(NumI(Len(value.s)), minLength)
  THEN Return(Str(<<"String must be at least ">> \o JsString(minLength) \o <<" characters long">>))
  ELSE IF maxLength # Undefined /\ NumLess(maxLength, NumI(Len(value.s)))
  THEN Return(Str(<<"String must be no more than ">> \o JsString(maxLength) \o <<" characters long">>))
  ELSE Return(True)

\* validators.number
ValidateNumber(value, min, max) ==
  IF TypeOf(value) # "number" \/ IsNaN(value) THEN Return(Str(<<"Value must be a valid number">>))
  ELSE IF min # Undefined /\ NumLess(value, min)
  THEN Return(Str(<<"Number must be at least ">> \o JsString(min)))
  ELSE IF max # Undefined /\ NumLess(max, value)
  THEN Return(Str(<<"Number must be no more than ">> \o JsString(max)))
  ELSE Return(True)

\* validators.boolean
ValidateBoolean(value) ==
  IF TypeOf(value) # "boolean" THEN Return(Str(<<"Value must be a boolean">>)) ELSE Return(True)

\* the nine keys of the validators collection
BuiltInTypes == {"url", "port", "email", "ip", "json", "regex", "string", "number", "boolean"}

\* builtInValidator(value): the validator of the type called with the value
\* alone, so every option (and the pattern) is undefined
BuiltInValidator(type, value) ==
  CASE type = "url" -> validateUrl(value, FALSE, <<>>, Undefined)
    [] type = "port" -> validatePort(value)
    [] type = "email" -> validateEmail(value)
    [] type = "ip" -> validateIp(value, Undefined)
    [] type = "json" -> validateJson(value)
    [] type = "regex" -> validateRegex(value, NoPattern)
    [] type = "string" -> ValidateString(value, Undefined, Undefined)
    [] type = "number" -> ValidateNumber(value, Undefined, Undefined)
    [] type = "boolean" -> ValidateBoolean(value)
    [] type = "toString" -> Return(Str(<<"[object Undefined]">>))

\* validators is an object literal, so validators[type] also finds what the
\* object inherits from Object.prototype.  toString stands for these names:
\* called as a plain function in module (strict) code its this is undefined,
\* and it returns '[object Undefined]' whatever the argument is.
InheritedTypes == {"toString"}

\* (validators as any)[type] is truthy
HasBuiltInValidator(type) == type \in BuiltInTypes \cup InheritedTypes

--------------------------------------------------------------------------
(* User-supplied functions of a schema.  A function is named by what it   *)
(* does; "none" is an absent (undefined) option.                           *)

\* the value of the JSON text t, which has no white space around it
JsonParsed(t) ==
  IF ~JsonParses(t) THEN Throw(Error(<<"SyntaxError">>))
  ELSE IF Head(t) \in {"{", "["} THEN Return(Obj)
  ELSE IF Head(t) = "\"" THEN Return(Str(SubSeq(t, 2, Len(t) - 1)))
  ELSE IF Head(t) = "t" THEN Return(True)
  ELSE IF Head(t) = "f" THEN Return(False)
  ELSE IF Head(t) = "n" THEN Return(Null)
  ELSE Return(parseFloat(t))

\* JSON.parse(s) for the texts the inputs contain: an object or array is an
\* object, a quoted text without escapes its content, else the literal
JsonParse(s) == JsonParsed(trim(s))

\* transform functions:
\*   toUpperCase  v => v.toUpperCase()
\*   jsonParse    v => JSON.parse(v)
\*   throws       () => { throw new Error('Transform failed') }
Transforms == {"toUpperCase", "jsonParse", "throws"}

CallTransform(transform, value) ==
  CASE transform = "toUpperCase" ->
         IF TypeOf(value) = "string" THEN Return(Str(toUpperCase(value.s)))
         ELSE IF value \in {Undefined, Null}
         THEN Throw(Error(<<"Cannot read properties of undefined (reading 'toUpperCase')">>))
         ELSE Throw(Error(<<"v.toUpperCase is not a function">>))
    [] transform = "jsonParse" -> JsonParse(JsString(value))
    [] transform = "throws" -> Throw(Error(<<"Transform failed">>))

CustomFieldText == <<"c","u","s","t","o","m">>

\* validate predicates:
\*   retTrue / retFalse / retUndefined / retNull / retZero / retEmpty / retOne
\*                 () => true, false, undefined, null, 0, '', 1
\*   retMsg        () => 'custom message'
\*   lengthGt3     v => v.length > 3
\*   throws        () => { throw new Error('Custom validation error') }
\*   throwsValidationError
\*                 v => { throw new ValidationError('custom', 'rejected', v) }
Predicates == {"retTrue", "retFalse", "retUndefined", "retNull", "retZero", "retEmpty",
               "retOne", "retMsg", "lengthGt3", "throws", "throwsValidationError"}

CallValidate(validate, value) ==
  CASE validate = "retTrue" -> Return(True)
    [] validate = "retFalse" -> Return(False)
    [] validate = "retUndefined" -> Return(Undefined)
    [] validate = "retNull" -> Return(Null)
    [] validate = "retZero" -> Return(NumI(0))
    [] validate = "retOne" -> Return(NumI(1))
    [] validate = "retEmpty" -> Return(Str(<<>>))
    [] validate = "retMsg" -> Return(Str(<<"custom message">>))
    [] validate = "lengthGt3" ->
         IF value \in {Undefined, Null}
         THEN Throw(Error(<<"Cannot read properties of undefined (reading 'length')">>))
         ELSE Return(Bool(TypeOf(value) = "string" /\ Len(value.s) > 3))
    [] validate = "throws" -> Throw(Error(<<"Custom validation error">>))
    [] validate = "throwsValidationError" ->
         Throw(ValidationError(CustomFieldText, <<"rejected">>, value,
                               Undefined, Undefined, Undefined, Undefined))

\* The default option: fn says that it is a function (a zero-argument
\* producer); a producer returns v or, when throws, throws an Error.
DefaultValue(v) == [fn |-> FALSE, throws |-> FALSE, v |-> v]
DefaultProducer(v) == [fn |-> TRUE, throws |-> FALSE, v |-> v]
ThrowingProducer == [fn |-> TRUE, throws |-> TRUE, v |-> Undefined]
NoDefault == DefaultValue(Undefined)

\* default !== undefined
DefaultDefined(default) == default.fn \/ default.v # Undefined

\* typeof default === 'function' ? default() : default
ResolveDefault(default) ==
  IF default.fn
  THEN IF default.throws THEN Throw(Error(<<"default producer failed">>)) ELSE Return(default.v)
  ELSE Return(default.v)

--------------------------------------------------------------------------
(* Schema definitions *)

\* A field definition of a raw schema.  isObject is FALSE for a definition
\* that is null or not an object; type is "" when the definition has none;
\* an option that is not given is Undefined, "none", <<>> or FALSE (has...).
BaseDef(name, type) ==
  [name |-> name, isObject |-> TRUE, type |-> type, required |-> Undefined,
   default |-> NoDefault, enum |-> <<>>, validate |-> "none", transform |-> "none",
   minLength |-> Undefined, maxLength |-> Undefined, min |-> Undefined, max |-> Undefined,
   hasProtocols |-> FALSE, protocols |-> <<>>, requireProtocol |-> Undefined,
   common |-> Undefined, allowPlus |-> Undefined, version |-> Undefined,
   hasPattern |-> FALSE, pattern |-> NoPattern]

\* the key of the override block in a raw schema
EnvironmentsKey == <<"_","e","n","v","i","r","o","n","m","e","n","t","s">>

\* One check of a composed validator.  The closures of defineSchema capture
\* the field definition; a compiled field keeps it as def, and its validator
\* is the sequence of the checks in the order the nested closures run them
\* (<<>> is an undefined validator).
CustomCheck == "custom"
TypeCheck == "type"
EnumCheck == "enum"

\* CustomResult letting every truthy result pass
CustomResult_Truthy(r) ==
  IF r.thrown THEN r
  ELSE IF Truthy(r.v) THEN Return(True)
  ELSE Return(Str(<<"Custom validation failed">>))

\* result === true ? true : (result || 'Custom validation failed')
CustomResult(r) ==
  IF r.thrown THEN r
  ELSE IF r.v = True THEN Return(True)
  ELSE IF Truthy(r.v) THEN Return(r.v)
  ELSE Return(Str(<<"Custom validation failed">>))

\* the validator closure of lines 600-603
CustomValidator(fieldDef, val) == CustomResult(CallValidate(fieldDef.validate, val))

\* the type-specific check that a wrapper of lines 612-702 runs first
TypeSpecificCheck(fieldDef, value) ==
  CASE fieldDef.type = "string" -> ValidateString(value, fieldDef.minLength, fieldDef.maxLength)
    [] fieldDef.type = "number" -> ValidateNumber(value, fieldDef.min, fieldDef.max)
    [] fieldDef.type = "url" ->
         validateUrl(value, fieldDef.hasProtocols, fieldDef.protocols, fieldDef.requireProtocol)
    [] fieldDef.type = "port" -> validatePort(value)
    [] fieldDef.type = "email" -> validateEmail(value)
    [] fieldDef.type = "ip" -> validateIp(value, fieldDef.version)
    [] fieldDef.type = "regex" -> validateRegex(value, fieldDef.pattern)

\* whether the switch of lines 612-702 wraps the validator for this field
HasTypeCheck(fieldDef) ==
  CASE fieldDef.type = "string" -> fieldDef.minLength # Undefined \/ fieldDef.maxLength # Undefined
    [] fieldDef.type = "number" -> fieldDef.min # Undefined \/ fieldDef.max # Undefined
    [] fieldDef.type = "url" -> fieldDef.hasProtocols \/ fieldDef.requireProtocol # Undefined
    [] fieldDef.type = "port" -> Truthy(fieldDef.common)
    [] fieldDef.type = "email" -> fieldDef.allowPlus # Undefined
    [] fieldDef.type = "ip" -> Truthy(fieldDef.version)
    [] fieldDef.type = "regex" -> fieldDef.hasPattern
    [] OTHER -> FALSE

\* the validator after line 604
ValidatorAfterCustom(fieldDef) ==
  IF fieldDef.validate # "none" THEN <<CustomCheck>> ELSE <<>>

\* ValidatorAfterType with the wrapped validator run before the type check
ValidatorAfterType_CustomFirst(fieldDef) ==
  IF ~HasTypeCheck(fieldDef) THEN ValidatorAfterCustom(fieldDef)
  ELSE IF fieldDef.type = "regex" THEN <<TypeCheck>>
  ELSE ValidatorAfterCustom(fieldDef) \o <<TypeCheck>>

\* the validator after the switch: a wrapper runs the type check and then the
\* validator it wraps; the regex case replaces the validator
ValidatorAfterType(fieldDef) ==
  IF ~HasTypeCheck(fieldDef) THEN ValidatorAfterCustom(fieldDef)
  ELSE IF fieldDef.type = "regex" THEN <<TypeCheck>>
  ELSE <<TypeCheck>> \o ValidatorAfterCustom(fieldDef)

\* the validator after lines 705-715
ComposedValidator(fieldDef) ==
  IF fieldDef.enum # <<>> THEN <<EnumCheck>> \o ValidatorAfterType(fieldDef)
  ELSE ValidatorAfterType(fieldDef)

\* the message of a failed enum check
EnumMessage(enumValues) ==
  <<"Value must be one of: ">> \o JoinComma([i \in 1..Len(enumValues) |-> JsString(enumValues[i])])

RunCheck(check, fieldDef, value) ==
  CASE check = EnumCheck ->
         IF ~includes(fieldDef.enum, value) THEN Return(Str(EnumMessage(fieldDef.enum)))
         ELSE Return(True)
    [] check = TypeCheck -> TypeSpecificCheck(fieldDef, value)
    [] check = CustomCheck -> CustomValidator(fieldDef, value)

RECURSIVE CallValidator(_, _, _)

\* r is the result of a check; the checks of validator come after it
CheckThen(r, validator, fieldDef, value) ==
  IF r.thrown \/ r.v # True THEN r ELSE CallValidator(validator, fieldDef, value)

\* calling a composed validator: the checks run in order and the first
\* result that is not true, or the first exception, ends the call
CallValidator(validator, fieldDef, value) ==
  IF validator = <<>> THEN Return(True)
  ELSE CheckThen(RunCheck(Head(validator), fieldDef, value), Tail(validator), fieldDef, value)

\* the compiled field of lines 590-717
CompileField(fieldDef) ==
  [name |-> fieldDef.name,
   type |-> fieldDef.type,
   required |-> IF Truthy(fieldDef.required) THEN fieldDef.required ELSE False,
   default |-> fieldDef.default,
   enum |-> fieldDef.enum,
   validator |-> ComposedValidator(fieldDef),
   transform |-> fieldDef.transform,
   def |-> fieldDef,
   extra |-> {}]

\* whether lines 581-587 throw for this definition
InvalidDefinition(fieldDef) == ~fieldDef.isObject \/ fieldDef.type = ""

SchemaErrorMessage(fieldDef) ==
  IF ~fieldDef.isObject
  THEN <<"Invalid schema definition for field \"">> \o fieldDef.name \o <<"\"">>
  ELSE <<"Field \"">> \o fieldDef.name \o <<"\" must specify a type">>

\* A raw schema is [fields, hasEnvironments, environments]: the entries in
\* declaration order (Object.entries keeps that order for keys that are not
\* array indices; the names here are identifiers), the entry named
\* _environments standing for the override block, which environments holds.
RECURSIVE CompileFields(_)

\* CompileEntry leaving an invalid definition out instead of throwing
CompileEntry_SkipInvalid(fieldDef, rest) ==
  IF fieldDef.name = EnvironmentsKey \/ InvalidDefinition(fieldDef) THEN rest
  ELSE IF rest.thrown THEN rest
  ELSE [rest EXCEPT !.schema = <<CompileField(fieldDef)>> \o rest.schema]

\* the entry fieldDef, followed by the entries that compile to rest
CompileEntry(fieldDef, rest) ==
  IF fieldDef.name = EnvironmentsKey THEN rest
  ELSE IF InvalidDefinition(fieldDef)
  THEN [thrown |-> TRUE, schemaPath |-> fieldDef.name,
        message |-> SchemaErrorMessage(fieldDef), schema |-> <<>>]
  ELSE IF rest.thrown THEN rest
  ELSE [rest EXCEPT !.schema = <<CompileField(fieldDef)>> \o rest.schema]

CompileFields(fields) ==
  IF fields = <<>> THEN [thrown |-> FALSE, schemaPath |-> <<>>, message |-> <<>>, schema |-> <<>>]
  ELSE CompileEntry(Head(fields), CompileFields(Tail(fields)))

NoEnvironments == <<>>

\* the compiled schema: c is what the loop over the entries gives
Compiled(schema, c) ==
  [thrown |-> c.thrown, schemaPath |-> c.schemaPath, message |-> c.message,
   schema |-> c.schema,
   hasEnvironments |-> schema.hasEnvironments /\ ~c.thrown,
   environments |-> IF c.thrown THEN NoEnvironments ELSE schema.environments]

defineSchema(schema) == Compiled(schema, CompileFields(schema.fields))

--------------------------------------------------------------------------
(* Validation engine *)

\* An override of a field: keys is the set of the keys the partial
\* definition has, def gives their values.
Override(keys, def) == [keys |-> keys, def |-> def]

\* the keys of a compiled field that an override can replace
CompiledKeys == {"type", "required", "default", "enum", "transform"}

\* Assign composing the validator again, from the definition merged with
\* the override
Assign_Recompile(fieldSchema, override) ==
  LET k == override.keys
      o == override.def
      merged == [fieldSchema.def EXCEPT
                   !.enum = IF "enum" \in k THEN o.enum ELSE @,
                   !.validate = IF "validate" \in k THEN o.validate ELSE @,
                   !.minLength = IF "minLength" \in k THEN o.minLength ELSE @,
                   !.maxLength = IF "maxLength" \in k THEN o.maxLength ELSE @,
                   !.min = IF "min" \in k THEN o.min ELSE @,
                   !.max = IF "max" \in k THEN o.max ELSE @,
                   !.hasProtocols = IF "protocols" \in k THEN o.hasProtocols ELSE @,
                   !.protocols = IF "protocols" \in k THEN o.protocols ELSE @,
                   !.version = IF "version" \in k THEN o.version ELSE @,
                   !.hasPattern = IF "pattern" \in k THEN o.hasPattern ELSE @,
                   !.pattern = IF "pattern" \in k THEN o.pattern ELSE @]
  IN  [fieldSchema EXCEPT
         !.type = IF "type" \in k THEN o.type ELSE @,
         !.required = IF "required" \in k THEN o.required ELSE @,
         !.default = IF "default" \in k THEN o.default ELSE @,
         !.enum = IF "enum" \in k THEN o.enum ELSE @,
         !.transform = IF "transform" \in k THEN o.transform ELSE @,
         !.def = merged,
         !.validator = ComposedValidator(merged),
         !.extra = k \ CompiledKeys]

\* Object.assign(effectiveSchema, override): every key of the override is
\* written; the keys that are not keys of a compiled field are new
\* properties (extra)
Assign(fieldSchema, override) ==
  [fieldSchema EXCEPT
     !.type = IF "type" \in override.keys THEN override.def.type ELSE @,
     !.required = IF "required" \in override.keys THEN override.def.required ELSE @,
     !.default = IF "default" \in override.keys THEN override.def.default ELSE @,
     !.enum = IF "enum" \in override.keys THEN override.def.enum ELSE @,
     !.transform = IF "transform" \in override.keys THEN override.def.transform ELSE @,
     !.extra = override.keys \ CompiledKeys]

\* EnvOverrides taking the first block whatever the environment is
EnvOverrides_AnyEnvironment(compiledSchema, environment) ==
  IF compiledSchema.hasEnvironments /\ DOMAIN compiledSchema.environments # {}
  THEN compiledSchema.environments[CHOOSE e \in DOMAIN compiledSchema.environments : TRUE]
  ELSE <<>>

\* environment && compiledSchema._environments?.[environment] || {}
EnvOverrides(compiledSchema, environment) ==
  IF Truthy(environment) /\ compiledSchema.hasEnvironments
     /\ environment.s \in DOMAIN compiledSchema.environments
  THEN compiledSchema.environments[environment.s]
  ELSE <<>>

\* lines 744-747
EffectiveSchema(fieldSchema, envOverrides) ==
  IF fieldSchema.name \in DOMAIN envOverrides
  THEN Assign(fieldSchema, envOverrides[fieldSchema.name])
  ELSE fieldSchema

\* what an iteration leaves: effectiveSchema is the definition the iteration
\* works with, fieldSchema the definition the compiled schema holds afterwards
Overridden(effectiveSchema, fieldSchema) ==
  [effectiveSchema |-> effectiveSchema, fieldSchema |-> fieldSchema]

\* ApplyOverrides without the copy: the override is assigned onto the field
\* of the compiled schema itself
ApplyOverrides_InPlace(fieldSchema, envOverrides) ==
  Overridden(EffectiveSchema(fieldSchema, envOverrides),
             EffectiveSchema(fieldSchema, envOverrides))

\* lines 744-747: { ...fieldSchema } is a new object, and Object.assign
\* writes the override's keys to it; the object the compiled schema holds is
\* not written
ApplyOverrides(fieldSchema, envOverrides) ==
  Overridden(EffectiveSchema(fieldSchema, envOverrides), fieldSchema)

\* Lookup that also finds the variable under its lower-cased name
Lookup_AnyCase(env, envVarName) ==
  IF envVarName \in DOMAIN env THEN env[envVarName]
  ELSE IF toLowerCase(envVarName) \in DOMAIN env THEN env[toLowerCase(envVarName)]
  ELSE Undefined

\* env[envVarName]
Lookup(env, envVarName) == IF envVarName \in DOMAIN env THEN env[envVarName] ELSE Undefined

\* The state of one iteration of the loop of validateEnv:
\*   value    the variable value
\*   errors   the entries this iteration pushed on errors
\*   written  validatedData[fieldName] = value was executed
\*   done     the iteration ended (continue, or the catch clause ran)
\*   thrown   an exception left validateEnv (exc)
\*   stages   the stages that ran, each with the value it was given
FieldState(value) ==
  [value |-> value, errors |-> <<>>, written |-> FALSE, done |-> FALSE,
   thrown |-> FALSE, exc |-> NoError, stages |-> <<>>]

Stage(name, input) == [stage |-> name, input |-> input]

\* PushAndContinue without the continue
PushAndContinue_NoContinue(s, error) == [s EXCEPT !.errors = Append(@, error)]

\* errors.push(...); continue
PushAndContinue(s, error) == [s EXCEPT !.errors = Append(@, error), !.done = TRUE]

\* Catch recording every exception as a TypeError of the field
Catch_AsTypeError(s, e, fieldName, envVarName) ==
  [s EXCEPT
     !.errors = Append(@, ErrorResult(fieldName, e.message, s.value, Undefined, Undefined,
                                      envVarName, "TypeError")),
     !.done = TRUE]

\* the catch clause of lines 833-853
Catch(s, e, fieldName, envVarName) ==
  [s EXCEPT
     !.errors = Append(@,
        IF e.ve
        THEN ErrorResult(e.field, e.message, e.value, e.expected, e.received, e.envVarName, e.type)
        ELSE ErrorResult(fieldName, e.message, s.value, Undefined, Undefined, envVarName, "TypeError")),
     !.done = TRUE]

CoercibleTypes == {"string", "number", "boolean", "port"}

\* the stage name is entered with the working value
Enter(s, name) == [s EXCEPT !.stages = Append(@, Stage(name, s.value))]

\* line 778-779: the assignment of the coerced value, or the throw
Coerced(s, c, fieldName, envVarName) ==
  IF c.thrown THEN Catch(s, c.e, fieldName, envVarName)
  ELSE [s EXCEPT !.value = c.v]

\* CoerceStage coercing the values of the other types as strings
CoerceStage_AllTypes(s, effectiveSchema, fieldName, envVarName) ==
  IF s.done THEN s
  ELSE Coerced(Enter(s, "coerce"),
               coerceValue(s.value, IF effectiveSchema.type \in CoercibleTypes
                                    THEN effectiveSchema.type ELSE "string"),
               fieldName, envVarName)

\* lines 777-781
CoerceStage(s, effectiveSchema, fieldName, envVarName) ==
  IF s.done \/ effectiveSchema.type \notin CoercibleTypes THEN s
  ELSE Coerced(Enter(s, "coerce"), coerceValue(s.value, effectiveSchema.type),
               fieldName, envVarName)

\* Transformed without the inner try: the exception of the transform reaches
\* the catch clause of the iteration
Transformed_OuterCatch(s, t, fieldName, envVarName) ==
  IF t.thrown THEN Catch(s, t.e, fieldName, envVarName)
  ELSE [s EXCEPT !.value = t.v]

\* lines 785-796: the inner try around the transform and its catch
Transformed(s, t, fieldName, envVarName) ==
  IF t.thrown
  THEN PushAndContinue(s, ErrorResult(fieldName, <<"Transform failed: ">> \o t.e.message,
                                      s.value, Undefined, Undefined, envVarName,
                                      "TransformError"))
  ELSE [s EXCEPT !.value = t.v]

\* lines 783-797
TransformStage(s, effectiveSchema, fieldName, envVarName) ==
  IF s.done \/ effectiveSchema.transform = "none" THEN s
  ELSE Transformed(Enter(s, "transform"), CallTransform(effectiveSchema.transform, s.value),
                   fieldName, envVarName)

\* ValidatorResult taking an exception of the validator for a failed
\* validation
ValidatorResult_ThrowIsFailure(s, validatorResult, failedMsg, fieldName, envVarName) ==
  IF validatorResult.thrown \/ validatorResult.v # True
  THEN PushAndContinue(s, ErrorResult(fieldName,
                          IF TypeOf(validatorResult.v) = "string" THEN validatorResult.v.s
                          ELSE failedMsg,
                          s.value, Undefined, Undefined, envVarName, "FormatError"))
  ELSE s

\* lines 802-812 and 818-827: validatorResult !== true pushes a FormatError
\* whose message is the returned string or failedMsg
ValidatorResult(s, validatorResult, failedMsg, fieldName, envVarName) ==
  IF validatorResult.thrown THEN Catch(s, validatorResult.e, fieldName, envVarName)
  ELSE IF validatorResult.v # True
  THEN PushAndContinue(s, ErrorResult(fieldName,
                          IF TypeOf(validatorResult.v) = "string" THEN validatorResult.v.s
                          ELSE failedMsg,
                          s.value, Undefined, Undefined, envVarName, "FormatError"))
  ELSE s

\* lines 799-813
BuiltInStage(s, effectiveSchema, fieldName, envVarName) ==
  IF s.done \/ ~HasBuiltInValidator(effectiveSchema.type) THEN s
  ELSE ValidatorResult(Enter(s, "builtin"), BuiltInValidator(effectiveSchema.type, s.value),
                  <<"Validation failed">>, fieldName, envVarName)

\* lines 815-828
ValidatorStage(s, effectiveSchema, fieldName, envVarName) ==
  IF s.done \/ effectiveSchema.validator = <<>> THEN s
  ELSE ValidatorResult(Enter(s, "validator"),
                  CallValidator(effectiveSchema.validator, effectiveSchema.def, s.value),
                  <<"Custom validation failed">>, fieldName, envVarName)

\* lines 830-831
AcceptStage(s) == IF s.done THEN s ELSE [s EXCEPT !.written = TRUE, !.done = TRUE]

\* Pipeline with the validators run before the transform
Pipeline_ValidateBeforeTransform(s, effectiveSchema, fieldName, envVarName) ==
  AcceptStage(
    TransformStage(
      ValidatorStage(
        BuiltInStage(
          CoerceStage(s, effectiveSchema, fieldName, envVarName),
          effectiveSchema, fieldName, envVarName),
        effectiveSchema, fieldName, envVarName),
      effectiveSchema, fieldName, envVarName))

\* lines 776-831: the try block, entered with the working value
Pipeline(s, effectiveSchema, fieldName, envVarName) ==
  AcceptStage(
    ValidatorStage(
      BuiltInStage(
        TransformStage(
          CoerceStage(s, effectiveSchema, fieldName, envVarName),
          effectiveSchema, fieldName, envVarName),
        effectiveSchema, fieldName, envVarName),
      effectiveSchema, fieldName, envVarName))

\* UseDefault storing the default without any further stage
UseDefault_Accept(s, d) ==
  IF d.thrown THEN [s EXCEPT !.done = TRUE, !.thrown = TRUE, !.exc = d.e]
  ELSE [s EXCEPT !.value = d.v, !.written = TRUE, !.done = TRUE]

\* lines 767-769: value = default, or the exception of the producer, which
\* no try encloses
UseDefault(s, d) ==
  IF d.thrown THEN [s EXCEPT !.done = TRUE, !.thrown = TRUE, !.exc = d.e]
  ELSE [s EXCEPT !.value = d.v]

\* Skip storing the undefined value under the field's key
Skip_WriteUndefined(s) == [s EXCEPT !.written = TRUE, !.done = TRUE]

\* lines 770-773: no value and no default, continue
Skip(s) == [s EXCEPT !.done = TRUE]

\* lines 755-761
RequiredError(fieldName, envVarName) ==
  ErrorResult(fieldName,
              <<"Required environment variable \"">> \o envVarName \o <<"\" is missing">>,
              Undefined, Undefined, Undefined, envVarName, "RequiredError")

\* ResolvePresence looking at the default before the required flag
ResolvePresence_DefaultFirst(s, effectiveSchema, fieldName, envVarName) ==
  IF s.value # Undefined THEN s
  ELSE IF DefaultDefined(effectiveSchema.default)
  THEN UseDefault(s, ResolveDefault(effectiveSchema.default))
  ELSE IF Truthy(effectiveSchema.required)
  THEN PushAndContinue(s, RequiredError(fieldName, envVarName))
  ELSE Skip(s)

\* lines 752-774: the state after the handling of a missing value
ResolvePresence(s, effectiveSchema, fieldName, envVarName) ==
  IF s.value # Undefined THEN s
  ELSE IF Truthy(effectiveSchema.required)
  THEN PushAndContinue(s, RequiredError(fieldName, envVarName))
  ELSE IF ~DefaultDefined(effectiveSchema.default) THEN Skip(s)
  ELSE UseDefault(s, ResolveDefault(effectiveSchema.default))

\* Iteration taking an empty string for a missing value
Iteration_EmptyIsMissing(value, effectiveSchema, fieldName, envVarName) ==
  Pipeline(ResolvePresence(FieldState(IF value = Str(<<>>) THEN Undefined ELSE value),
                           effectiveSchema, fieldName, envVarName),
           effectiveSchema, fieldName, envVarName)

\* lines 752-854: the body of the loop for the effective schema of a field
\* and the value of its variable
Iteration(value, effectiveSchema, fieldName, envVarName) ==
  Pipeline(ResolvePresence(FieldState(value), effectiveSchema, fieldName, envVarName),
           effectiveSchema, fieldName, envVarName)

\* lines 749-750
EnvVarValue(env, envVarName, effectiveSchema, fieldName) ==
  Iteration(Lookup(env, envVarName), effectiveSchema, fieldName, envVarName)

\* lines 743-854: one iteration of the loop, for one field
ProcessField(fieldSchema, envOverrides, env) ==
  EnvVarValue(env, toUpperCase(fieldSchema.name),
              ApplyOverrides(fieldSchema, envOverrides).effectiveSchema, fieldSchema.name)

RECURSIVE Outcomes(_, _, _)

\* the loop goes on to the next field unless an exception left the iteration
NextField(o, fields, envOverrides, env) ==
  IF o.thrown THEN <<o>> ELSE <<o>> \o Outcomes(fields, envOverrides, env)

\* the iterations of the loop in the order it visits the fields, up to and
\* including the first from which an exception leaves
Outcomes(fields, envOverrides, env) ==
  IF fields = <<>> THEN <<>>
  ELSE NextField(ProcessField(Head(fields), envOverrides, env), Tail(fields), envOverrides, env)

\* PushErrors putting each new entry in front (unshift)
RECURSIVE PushErrors_Unshift(_)
PushErrors_Unshift(os) ==
  IF os = <<>> THEN <<>> ELSE PushErrors_Unshift(Tail(os)) \o Head(os).errors

\* the errors list after the iterations os
RECURSIVE PushErrors(_)
PushErrors(os) ==
  IF os = <<>> THEN <<>> ELSE Head(os).errors \o PushErrors(Tail(os))

\* validatedData after the iterations os; a later write to a key replaces an
\* earlier one
RECURSIVE WriteData(_, _, _)
WriteData(fields, os, data) ==
  IF os = <<>> THEN data
  ELSE WriteData(Tail(fields), Tail(os),
                 IF Head(os).written
                 THEN [k \in DOMAIN data \cup {Head(fields).name} |->
                         IF k = Head(fields).name THEN Head(os).value ELSE data[k]]
                 ELSE data)

EmptyData == [k \in {} |-> Undefined]

\* Result returning the data collected so far also when there are errors
Result_PartialData(errors, validatedData) ==
  [success |-> Len(errors) = 0,
   hasData |-> TRUE,
   data |-> validatedData,
   errors |-> errors,
   hasErrors |-> Len(errors) > 0]

\* lines 856-861: hasData says that data is not undefined
Result(errors, validatedData) ==
  [success |-> Len(errors) = 0,
   hasData |-> Len(errors) = 0,
   data |-> IF Len(errors) = 0 THEN validatedData ELSE EmptyData,
   errors |-> errors,
   hasErrors |-> Len(errors) > 0]

\* what the call gives after the iterations os: thrown when an exception
\* (exc) left the last of them, and then there is no result
Completed(fields, os) ==
  IF os # <<>> /\ os[Len(os)].thrown
  THEN [thrown |-> TRUE, exc |-> os[Len(os)].exc, result |-> Result(<<>>, EmptyData),
        outcomes |-> os]
  ELSE [thrown |-> FALSE, exc |-> NoError,
        result |-> Result(PushErrors(os), WriteData(fields, os, EmptyData)),
        outcomes |-> os]

\* validateEnv(compiledSchema, env, environment).  thrown: an exception (exc)
\* left the call and there is no result; otherwise result is the returned
\* object.  outcomes records what each iteration did.
validateEnv(compiledSchema, env, environment) ==
  Completed(compiledSchema.schema,
            Outcomes(compiledSchema.schema, EnvOverrides(compiledSchema, environment), env))

\* the compiled schema after a call whose loop ran n iterations: each
\* iteration leaves its field as ApplyOverrides says
StoredSchema(compiledSchema, envOverrides, n) ==
  [compiledSchema EXCEPT
     !.schema = [i \in DOMAIN @ |->
                   IF i <= n THEN ApplyOverrides(@[i], envOverrides).fieldSchema ELSE @[i]]]

--------------------------------------------------------------------------
(* Inputs: the schemas, env maps and environment names of the calls *)

\* the most fields a schema of Spec declares
MaxFields == 2

S_5 == <<"5">>
S_50 == <<"5","0">>
S_ab == <<"a","b">>
S_AB == <<"A","B">>
S_padded == <<" ","a","b","c","d"," ">>
S_true == <<"t","r","u","e">>
S_https == <<"h","t","t","p","s",":","/","/","a",".","b">>
S_ftp == <<"f","t","p",":","/","/","a",".","b">>
S_ip == <<"1",".","2",".","3",".","4">>
S_json == <<"{","\"","a","\"",":","1","}">>
S_email == <<"a","@","b",".","c">>
S_prod == <<"p","r","o","d">>
S_dev == <<"d","e","v">>
S_httpsProtocol == <<"h","t","t","p","s",":">>
S_wsProtocol == <<"w","s",":">>
S_paddedUrl == <<" ","h","t","t","p","s",":","/","/","a",".","b"," ">>
S_ws == <<"w","s",":","/","/","a",".","b">>
S_0 == <<"0">>
S_1point5 == <<"1",".","5">>
S_8080 == <<"8","0","8","0">>
S_65535 == <<"6","5","5","3","5">>
S_65536 == <<"6","5","5","3","6">>

\* the values an env map gives a variable
EnvValues ==
  {S_5, S_50, S_ab, S_AB, S_padded, S_true, S_https, S_ftp, S_ip, S_json, S_email, <<>>,
   S_paddedUrl, S_ws, S_0, S_1point5, S_8080, S_65535, S_65536}

\* the environment argument: omitted, or a name with or without a block
Environments == {Undefined, Str(S_prod), Str(S_dev)}

FieldTypes == BuiltInTypes \cup {"custom"}

\* the type-specific options of a field of each type
WithOptions(def) ==
  CASE def.type = "string" -> [def EXCEPT !.minLength = NumI(2), !.maxLength = NumI(4)]
    [] def.type = "number" -> [def EXCEPT !.min = NumI(1), !.max = NumI(10)]
    [] def.type = "url" -> [def EXCEPT !.hasProtocols = TRUE, !.protocols = <<S_httpsProtocol, S_wsProtocol>>]
    [] def.type = "port" -> [def EXCEPT !.common = True]
    [] def.type = "email" -> [def EXCEPT !.allowPlus = True]
    [] def.type = "ip" -> [def EXCEPT !.version = Str(<<"ipv6">>)]
    [] def.type = "regex" -> [def EXCEPT !.hasPattern = TRUE, !.pattern = PatternTwoUpper]
    [] OTHER -> def

KeyName == <<"k","e","y">>

NoOverride == Override({}, BaseDef(<<>>, ""))

\* the raw schema with the fields defs, whose overrides for environment
\* "prod" are ovs (an override without keys is no entry)
RawSchema(defs, ovs) ==
  LET named == {i \in 1..Len(defs) : ovs[i].keys # {}}
      names == {defs[i].name : i \in named}
      block == [n \in names |-> ovs[CHOOSE i \in named : defs[i].name = n]]
  IN  IF named = {}
      THEN [fields |-> defs, hasEnvironments |-> FALSE, environments |-> NoEnvironments]
      ELSE [fields |-> defs \o <<BaseDef(EnvironmentsKey, "")>>,
            hasEnvironments |-> TRUE,
            environments |-> [e \in {S_prod} |-> block]]

Defaults == {NoDefault, DefaultValue(Str(S_AB)), DefaultValue(NumI(8080)),
             DefaultProducer(Str(S_padded)), ThrowingProducer}
Enums == {<<>>, <<Str(S_ab), Str(S_AB), NumI(5), NumI(50)>>}
SomePredicates == {"none", "retTrue", "retFalse", "retMsg", "lengthGt3", "throws"}

\* fields of every type with every default and transform
PipelineDefs ==
  { [BaseDef(KeyName, t) EXCEPT !.default = df, !.transform = x, !.validate = p] :
      <<t, df, x, p>> \in FieldTypes \X Defaults \X {"none", "toUpperCase", "throws"} \X {"none", "retFalse"} }

\* fields of every type with and without enum, type-specific options and
\* custom predicate
ValidatorDefs ==
  { LET d == [BaseDef(KeyName, t) EXCEPT !.enum = e, !.validate = p, !.transform = x]
    IN  IF o THEN WithOptions(d) ELSE d :
      <<t, e, p, x, o>> \in FieldTypes \X Enums \X SomePredicates \X {"none", "toUpperCase"} \X BOOLEAN }

\* fields with every required flag and default, to combine with an override
PresenceDefs ==
  { [BaseDef(KeyName, t) EXCEPT !.required = r, !.default = df] :
      <<t, r, df>> \in {"string", "number", "url"} \X {Undefined, True, False} \X Defaults }

\* string and custom fields with each custom predicate
PredicateDefs ==
  { [BaseDef(KeyName, t) EXCEPT !.validate = p] : <<t, p>> \in {"string", "custom"} \X Predicates }

\* fields whose type is not one of the nine field types
UnknownTypeDefs ==
  { [BaseDef(KeyName, t) EXCEPT !.enum = e, !.validate = p, !.transform = x] :
      <<t, e, p, x>> \in InheritedTypes \X Enums \X {"none", "retFalse"} \X {"none", "toUpperCase"} }

\* json fields whose transform parses the text, as the FAQ of the README
\* writes them
JsonDefs ==
  { [BaseDef(KeyName, "json") EXCEPT !.transform = "jsonParse", !.default = df] :
      df \in {NoDefault, DefaultValue(Str(<<"[","]">>))} }

\* the overrides of environment "prod" for a field
Overrides ==
  { NoOverride,
    Override({"required"}, [BaseDef(<<>>, "") EXCEPT !.required = True]),
    Override({"required"}, [BaseDef(<<>>, "") EXCEPT !.required = False]),
    Override({"default"}, [BaseDef(<<>>, "") EXCEPT !.default = DefaultValue(Str(S_ab))]),
    Override({"type"}, BaseDef(<<>>, "number")),
    Override({"transform"}, [BaseDef(<<>>, "") EXCEPT !.transform = "toUpperCase"]),
    Override({"enum", "minLength", "min", "validate"},
             [BaseDef(<<>>, "") EXCEPT !.enum = <<Str(S_ab)>>, !.minLength = NumI(3),
                                       !.min = NumI(6), !.validate = "retFalse"]),
    Override({"maxLength", "max", "protocols", "version", "pattern"},
             [BaseDef(<<>>, "") EXCEPT !.maxLength = NumI(1), !.max = NumI(1),
                                       !.hasProtocols = TRUE, !.protocols = <<S_wsProtocol>>,
                                       !.version = Str(<<"ipv6">>),
                                       !.hasPattern = TRUE, !.pattern = PatternTwoUpper]) }

\* the schemas of SpecField: one field
FieldSchemas ==
  { RawSchema(<<d>>, <<NoOverride>>) : d \in PipelineDefs \cup ValidatorDefs \cup JsonDefs \cup PredicateDefs
                                           \cup UnknownTypeDefs }
  \cup { RawSchema(<<d>>, <<o>>) : <<d, o>> \in PresenceDefs \X Overrides }

PortName == <<"p","o","r","t">>
HostName == <<"h","o","s","t">>
DebugName == <<"D","b","g">>

\* the definitions a schema of Spec can give each of its field names, each
\* with its override for environment "prod"
Catalog ==
  { <<[BaseDef(PortName, "number") EXCEPT !.required = True], NoOverride>>,
    <<[BaseDef(PortName, "port") EXCEPT !.default = DefaultValue(NumI(8080))], NoOverride>>,
    <<[BaseDef(PortName, "number") EXCEPT !.min = NumI(1), !.max = NumI(10), !.validate = "retMsg"],
      NoOverride>>,
    <<[BaseDef(PortName, "port") EXCEPT !.default = ThrowingProducer], NoOverride>>,
    <<[BaseDef(HostName, "string") EXCEPT !.required = True, !.transform = "toUpperCase"], NoOverride>>,
    <<[BaseDef(HostName, "string") EXCEPT !.transform = "throws"], NoOverride>>,
    <<[BaseDef(HostName, "string") EXCEPT !.enum = <<Str(S_ab), Str(<<"a","b","c","d">>)>>,
                                          !.validate = "lengthGt3", !.default = DefaultValue(Str(S_AB))],
      NoOverride>>,
    <<BaseDef(HostName, "url"),
      Override({"required"}, [BaseDef(<<>>, "") EXCEPT !.required = True])>>,
    <<[BaseDef(DebugName, "boolean") EXCEPT !.required = True], NoOverride>>,
    <<[BaseDef(DebugName, "regex") EXCEPT !.hasPattern = TRUE, !.pattern = PatternTwoUpper], NoOverride>>,
    <<[BaseDef(DebugName, "custom") EXCEPT !.validate = "throws"], NoOverride>>,
    <<[BaseDef(DebugName, "string") EXCEPT !.isObject = FALSE], NoOverride>>,
    <<[BaseDef(HostName, "") EXCEPT !.required = True], NoOverride>> }

\* the sequences of at most n catalog entries with distinct field names
RECURSIVE Selections(_)
Selections(n) ==
  IF n = 0 THEN {<<>>}
  ELSE LET shorter == Selections(n - 1)
       IN  shorter \cup
           { Append(sel, c) : <<sel, c>> \in
               { <<sel, c>> \in shorter \X Catalog :
                   \A i \in 1..Len(sel) : sel[i][1].name # c[1].name } }

\* the schemas of Spec
Schemas ==
  { RawSchema([i \in 1..Len(sel) |-> sel[i][1]], [i \in 1..Len(sel) |-> sel[i][2]]) :
      sel \in Selections(MaxFields) }

\* the most validateEnv calls a program of SpecRepeat makes
MaxCalls == 2

\* the definitions of the schemas that are validated against several times,
\* each with its override for environment "prod"
RepeatCatalog ==
  { <<[BaseDef(PortName, "number") EXCEPT !.required = True],
      Override({"required"}, [BaseDef(<<>>, "") EXCEPT !.required = False])>>,
    <<[BaseDef(PortName, "port") EXCEPT !.default = DefaultValue(NumI(8080))],
      Override({"default"}, [BaseDef(<<>>, "") EXCEPT !.default = DefaultValue(Str(S_ab))])>>,
    <<BaseDef(PortName, "string"), Override({"type"}, BaseDef(<<>>, "number"))>>,
    <<[BaseDef(DebugName, "boolean") EXCEPT !.required = True], NoOverride>>,
    <<BaseDef(DebugName, "string"),
      Override({"transform"}, [BaseDef(<<>>, "") EXCEPT !.transform = "toUpperCase"])>>,
    <<[BaseDef(DebugName, "custom") EXCEPT !.validate = "throws"],
      Override({"required"}, [BaseDef(<<>>, "") EXCEPT !.required = True])>> }

\* the schemas of SpecRepeat and SpecInterleaved: each definition alone, and
\* one schema of two fields
RepeatSchemas ==
  { RawSchema(<<c[1]>>, <<c[2]>>) : c \in RepeatCatalog }
  \cup { RawSchema(<<BaseDef(PortName, "string"),
                     [BaseDef(DebugName, "string") EXCEPT !.default = ThrowingProducer]>>,
                   <<Override({"type"}, BaseDef(<<>>, "number")),
                     Override({"required"}, [BaseDef(<<>>, "") EXCEPT !.required = True])>>) }

\* the longest of the strings over CoerceAlphabet that coerceValue is given
MaxLen == 3

\* letters of the boolean words, digits, the sign, the point and a blank
CoerceAlphabet == {"o", "n", "f", "N", "1", "0", ".", "-", " "}

\* the strings of at most n characters of CoerceAlphabet
RECURSIVE StringsUpTo(_)
StringsUpTo(n) ==
  IF n = 0 THEN {<<>>}
  ELSE StringsUpTo(n - 1) \cup
       { Append(s, c) : <<s, c>> \in {s \in StringsUpTo(n - 1) : Len(s) = n - 1} \X CoerceAlphabet }

\* the values coerceValue is given: strings, and values that are not strings
CoerceInputs ==
  { Str(s) : s \in StringsUpTo(MaxLen) }
  \cup { Str(s) : s \in { <<"t","r","u","e">>, <<"T","R","U","E">>, <<" ","T","r","u","e"," ">>,
                          <<"f","a","l","s","e">>, <<"F","a","l","s","e","\t">>,
                          <<"y","e","s">>, <<"Y","E","S">>, <<"O","f","f">>, <<"m","a","y","b","e">>,
                          <<"t","r","u","e","1">>, <<"o","n","e">>,
                          <<"1","2",".","3","4",".","5","6">>, <<"1","2",".","3","4">>,
                          <<"I","n","f","i","n","i","t","y">>, <<"-","I","n","f","i","n","i","t","y">>,
                          <<"1","e","3">>, <<"1",".","5","e","-","1">>, <<"a","b","c">>,
                          <<"8","0","8","0">>, <<"8","0","8","0","a","b","c">>,
                          <<"+","4","2">>, <<"\n","7">>, <<"0","x","1","0">>, <<"N","a","N">> } }
  \cup { True, False, Undefined, Null, Obj, NaN, Num(1, 0), Num(0 - 1, 0),
         NumI(0), NumI(1), NumI(8080), NumI(0 - 5), Num(15, 10) }

\* the values an env map can give the variable key
ValuesFor(key) ==
  CASE key = toUpperCase(KeyName) -> EnvValues
    [] key = toUpperCase(PortName) -> {S_5, S_50, S_ab}
    [] key = toUpperCase(HostName) -> {S_ab, S_padded, S_https}
    [] key = toUpperCase(DebugName) -> {S_true, S_AB}
    [] OTHER -> {S_ab}

\* the variables an env map can set for a schema: the upper-cased names of
\* its fields, and the name host as it is declared
EnvKeys(schema) ==
  LET names == {schema.fields[i].name : i \in 1..Len(schema.fields)} \ {EnvironmentsKey}
  IN  {toUpperCase(n) : n \in names} \cup (names \cap {HostName})

EmptyEnv == [k \in {} |-> Undefined]

\* the flat maps from some of the variables keys to strings
RECURSIVE MapsOver(_)
MapsOver(keys) ==
  IF keys = {} THEN {EmptyEnv}
  ELSE LET key == CHOOSE k \in keys : TRUE
           rest == MapsOver(keys \ {key})
       IN  rest \cup
           { [k \in DOMAIN m \cup {key} |-> IF k = key THEN Str(v) ELSE m[k]] :
               <<m, v>> \in rest \X ValuesFor(key) }

\* the env maps of a call
EnvMaps(schema) == MapsOver(EnvKeys(schema))

--------------------------------------------------------------------------
(* The program: a schema is compiled and env maps are validated against it *)

VARIABLES
  rawSchema,       \* the schema handed to defineSchema
  pc,              \* "start", "compiled", "schemaError" or "validated"
  compiledSchema,  \* what defineSchema returned or threw
  env,             \* the env map of the last validateEnv call
  environment,     \* its environment argument
  call,            \* what that call returned or threw
  calls,           \* the completed validateEnv calls, in the order they were made
  running,         \* the validateEnv calls in progress, by caller
  coercion         \* the arguments of a direct coerceValue call and its outcome

vars == <<rawSchema, pc, compiledSchema, env, environment, call, calls, running, coercion>>

NotCompiled ==
  [thrown |-> FALSE, schemaPath |-> <<>>, message |-> <<>>, schema |-> <<>>,
   hasEnvironments |-> FALSE, environments |-> NoEnvironments]

NoCall == [thrown |-> FALSE, exc |-> NoError, result |-> Result(<<>>, EmptyData), outcomes |-> <<>>]

\* the callers whose validateEnv calls are interleaved
Callers == {"a", "b"}

\* a validateEnv call in progress: its arguments, its envOverrides, what the
\* iterations of its loop have done so far (its errors and validatedData are
\* those of outcomes), and what it returned.  turns is bookkeeping: the
\* positions of its iterations among the iterations of all callers.
Idle ==
  [phase |-> "idle", env |-> EmptyEnv, environment |-> Undefined, envOverrides |-> <<>>,
   outcomes |-> <<>>, turns |-> <<>>, call |-> NoCall]

\* coerceValue(value, type) before it is called, and when no such call is made
Coercion(value, type) == [value |-> value, type |-> type, done |-> FALSE, result |-> Return(Undefined)]

NoCoercion == Coercion(Undefined, "")

Start(schemas) ==
  /\ coercion = NoCoercion
  /\ rawSchema \in schemas
  /\ pc = "start"
  /\ compiledSchema = NotCompiled
  /\ env = EmptyEnv
  /\ environment = Undefined
  /\ call = NoCall
  /\ calls = <<>>
  /\ running = [c \in Callers |-> Idle]

Init == Start(Schemas)

InitField == Start(FieldSchemas)

\* const compiled = defineSchema(rawSchema)
DefineSchema ==
  /\ pc = "start"
  /\ compiledSchema' = defineSchema(rawSchema)
  /\ pc' = IF compiledSchema'.thrown THEN "schemaError" ELSE "compiled"
  /\ UNCHANGED <<rawSchema, env, environment, call, calls, running, coercion>>

\* validateEnv(compiled, envVars, name), as one step
ValidateEnv(envVars, name) ==
  /\ pc \in {"compiled", "validated"}
  /\ env' = envVars
  /\ environment' = name
  /\ call' = validateEnv(compiledSchema, envVars, name)
  /\ compiledSchema' = StoredSchema(compiledSchema, EnvOverrides(compiledSchema, name),
                                    Len(call'.outcomes))
  /\ calls' = Append(calls, [env |-> envVars, environment |-> name, call |-> call'])
  /\ pc' = "validated"
  /\ UNCHANGED <<rawSchema, running, coercion>>

\* coerceValue(value, type)
CoerceValue ==
  /\ ~coercion.done
  /\ coercion.type \in CoercibleTypes
  /\ coercion' = [coercion EXCEPT !.done = TRUE, !.result = coerceValue(coercion.value, coercion.type)]
  /\ UNCHANGED <<rawSchema, pc, compiledSchema, env, environment, call, calls, running>>

\* lines 734-739: a caller enters validateEnv(compiled, envVars, name)
Begin(c, envVars, name) ==
  /\ pc = "compiled"
  /\ running[c].phase = "idle"
  /\ running' = [running EXCEPT ![c] =
                   [phase |-> "loop", env |-> envVars, environment |-> name,
                    envOverrides |-> EnvOverrides(compiledSchema, name),
                    outcomes |-> <<>>, turns |-> <<>>, call |-> NoCall]]
  /\ UNCHANGED <<rawSchema, pc, compiledSchema, env, environment, call, calls, coercion>>

\* the loop of the call of c is over: every field had its iteration, or an
\* exception left the last one
LoopOver(c) ==
  \/ Len(running[c].outcomes) = Len(compiledSchema.schema)
  \/ /\ running[c].outcomes # <<>>
     /\ running[c].outcomes[Len(running[c].outcomes)].thrown

\* the iterations all callers have run so far
Iterations == {<<c, k>> \in Callers \X (1..Len(compiledSchema.schema)) : k <= Len(running[c].outcomes)}

\* lines 742-854: the call of c runs the iteration of its next field
StepField(c) ==
  /\ running[c].phase = "loop"
  /\ ~LoopOver(c)
  /\ running' = [running EXCEPT
                   ![c].outcomes =
                     Append(@, ProcessField(compiledSchema.schema[Len(@) + 1],
                                            running[c].envOverrides, running[c].env)),
                   ![c].turns = Append(@, Cardinality(Iterations) + 1)]
  /\ compiledSchema' =
       [compiledSchema EXCEPT !.schema[Len(running[c].outcomes) + 1] =
          ApplyOverrides(@, running[c].envOverrides).fieldSchema]
  /\ UNCHANGED <<rawSchema, pc, env, environment, call, calls, coercion>>

\* lines 856-861: the call of c returns, or its exception reaches the caller
Finish(c) ==
  /\ running[c].phase = "loop"
  /\ LoopOver(c)
  /\ running' = [running EXCEPT ![c].phase = "returned",
                                ![c].call = Completed(compiledSchema.schema, running[c].outcomes)]
  /\ UNCHANGED <<rawSchema, pc, compiledSchema, env, environment, call, calls, coercion>>

Next ==
  \/ DefineSchema
  \/ /\ pc = "compiled"
     /\ \E envVars \in EnvMaps(rawSchema), name \in Environments : ValidateEnv(envVars, name)

\* schemas of up to MaxFields fields
Spec == Init /\ [][Next]_vars

\* schemas of one field
SpecField == InitField /\ [][Next]_vars

InitRepeat == Start(RepeatSchemas)

\* a program that validates several env maps against one compiled schema
NextRepeat ==
  \/ DefineSchema
  \/ /\ Len(calls) < MaxCalls
     /\ \E envVars \in EnvMaps(rawSchema), name \in Environments : ValidateEnv(envVars, name)

SpecRepeat == InitRepeat /\ [][NextRepeat]_vars

\* a program that calls coerceValue directly
InitCoerce ==
  /\ coercion \in {Coercion(v, t) : <<v, t>> \in CoerceInputs \X CoercibleTypes}
  /\ rawSchema = RawSchema(<<>>, <<>>)
  /\ pc = "start"
  /\ compiledSchema = NotCompiled
  /\ env = EmptyEnv
  /\ environment = Undefined
  /\ call = NoCall
  /\ calls = <<>>
  /\ running = [c \in Callers |-> Idle]

NextCoerce == CoerceValue

SpecCoerce == InitCoerce /\ [][NextCoerce]_vars

\* a program whose callers' validateEnv calls on one compiled schema are
\* interleaved iteration by iteration
NextInterleaved ==
  \/ DefineSchema
  \/ \E c \in Callers, envVars \in EnvMaps(rawSchema), name \in Environments :
       Begin(c, envVars, name)
  \/ \E c \in Callers : StepField(c)
  \/ \E c \in Callers : Finish(c)

SpecInterleaved == InitRepeat /\ [][NextInterleaved]_vars

--------------------------------------------------------------------------
(* Properties *)

Validated == pc = "validated"

\* the last call returned a result
Returned == Validated /\ ~call.thrown

res == call.result

NFields == Len(compiledSchema.schema)

\* the effective definition, in the last call, of the i-th compiled field
Eff(i) == EffectiveSchema(compiledSchema.schema[i], EnvOverrides(compiledSchema, environment))

FieldNameOf(i) == compiledSchema.schema[i].name

\* the env map of the last call has no entry under the upper-cased name
AbsentVar(i) == toUpperCase(FieldNameOf(i)) \notin DOMAIN env

\* what the iteration for the i-th field did
Out(i) == call.outcomes[i]

StageNames(stages) == [k \in 1..Len(stages) |-> stages[k].stage]

\* C1: every returned result has success true exactly when errors is empty,
\* hasErrors true exactly when errors is non-empty, and data defined exactly
\* when errors is empty.
C1_ResultShape ==
  Returned =>
    /\ res.success <=> (res.errors = <<>>)
    /\ res.hasErrors <=> (res.errors # <<>>)
    /\ res.hasData <=> (res.errors = <<>>)
    /\ ~res.hasData => res.data = EmptyData

\* one field failed, another was individually valid, and data is undefined
C1_Witness ==
  /\ Returned
  /\ Len(res.errors) = 1
  /\ \E i \in 1..NFields : Out(i).written
  /\ ~res.hasData /\ ~res.success /\ res.hasErrors

\* C2: validateEnv never throws: every validation-time failure, an exception
\* of a default producer included, is captured in errors, and every field is
\* processed.
C2_NeverThrows ==
  Validated => ~call.thrown /\ Len(call.outcomes) = NFields

\* C3: each schema field contributes at most one entry to errors; the stage
\* that records it ends the field's iteration, so the field is not written
\* and errors is no longer than the schema.
C3_OneErrorPerField ==
  Returned =>
    /\ \A i \in 1..NFields :
         /\ Len(Out(i).errors) <= 1
         /\ Out(i).errors # <<>> => ~Out(i).written
    /\ Len(res.errors) <= NFields

\* a field whose transform threw has one TransformError although its
\* validators would have run next, and the other field failed too
C3_Witness ==
  /\ Returned
  /\ Len(res.errors) = 2
  /\ \E i \in 1..NFields :
       /\ Len(Out(i).errors) = 1
       /\ Out(i).errors[1].type = "TransformError"
       /\ Eff(i).type \in BuiltInTypes
       /\ StageNames(Out(i).stages) = <<"coerce", "transform">>

\* the names of the fields of the raw schema, in declaration order
RECURSIVE DeclaredNames(_)
DeclaredNames(fields) ==
  IF fields = <<>> THEN <<>>
  ELSE IF Head(fields).name = EnvironmentsKey THEN DeclaredNames(Tail(fields))
  ELSE <<Head(fields).name>> \o DeclaredNames(Tail(fields))

\* the position of the compiled field called name
CompiledIndex(name) == CHOOSE i \in 1..NFields : FieldNameOf(i) = name

\* the entries recorded for the declared names, in the order of the names
RECURSIVE ErrorsOf(_)
ErrorsOf(names) ==
  IF names = <<>> THEN <<>>
  ELSE Out(CompiledIndex(Head(names))).errors \o ErrorsOf(Tail(names))

StageApplies(effectiveSchema, name) ==
  CASE name = "coerce" -> effectiveSchema.type \in CoercibleTypes
    [] name = "transform" -> effectiveSchema.transform # "none"
    [] name = "builtin" -> HasBuiltInValidator(effectiveSchema.type)
    [] name = "validator" -> effectiveSchema.validator # <<>>

StageOrder == <<"coerce", "transform", "builtin", "validator">>

\* the stages a field has, in the order of the pipeline
RECURSIVE StagesOf(_, _)
StagesOf(effectiveSchema, names) ==
  IF names = <<>> THEN <<>>
  ELSE IF StageApplies(effectiveSchema, Head(names))
  THEN <<Head(names)>> \o StagesOf(effectiveSchema, Tail(names))
  ELSE StagesOf(effectiveSchema, Tail(names))

\* the value the presence resolution of the i-th field hands to the try block
WorkingValue(i) ==
  IF AbsentVar(i) THEN ResolveDefault(Eff(i).default).v
  ELSE env[toUpperCase(FieldNameOf(i))]

\* what the k-th stage that ran for the i-th field handed on
StageOutput(i, k) ==
  IF k < Len(Out(i).stages) THEN Out(i).stages[k + 1].input ELSE Out(i).value

\* the k-th stage that ran for the i-th field accepted its input, a validator
\* having been given the value that is written
StagePassed(i, k) ==
  LET st == Out(i).stages[k]
  IN  CASE st.stage = "coerce" ->
             coerceValue(st.input, Eff(i).type) = Return(StageOutput(i, k))
        [] st.stage = "transform" ->
             CallTransform(Eff(i).transform, st.input) = Return(StageOutput(i, k))
        [] st.stage = "builtin" ->
             /\ st.input = Out(i).value
             /\ BuiltInValidator(Eff(i).type, st.input) = Return(True)
        [] st.stage = "validator" ->
             /\ st.input = Out(i).value
             /\ CallValidator(Eff(i).validator, Eff(i).def, st.input) = Return(True)

C6_RequiredMissing ==
  Validated =>
    \A i \in 1..Len(call.outcomes) :
      (Truthy(Eff(i).required) /\ AbsentVar(i)) =>
        /\ ~Out(i).thrown
        /\ Len(Out(i).errors) = 1
        /\ Out(i).errors[1].type = "RequiredError"
        /\ Out(i).errors[1].field = FieldNameOf(i)
        /\ Out(i).errors[1].value = Undefined
        /\ Out(i).errors[1].envVarName = toUpperCase(FieldNameOf(i))
        /\ Contains(Out(i).errors[1].message, toUpperCase(FieldNameOf(i)))
        /\ Out(i).value = Undefined
        /\ Out(i).stages = <<>>
        /\ ~Out(i).written
        /\ ~call.thrown => \E k \in 1..Len(res.errors) : res.errors[k] = Out(i).errors[1]

\* a required field with a throwing default producer is absent
C6_Witness ==
  /\ Returned
  /\ Truthy(Eff(1).required) /\ AbsentVar(1)
  /\ Eff(1).default = ThrowingProducer
  /\ Len(res.errors) = 1
  /\ res.errors[1].type = "RequiredError"

\* the i-th field is not required, its variable is absent and its effective
\* default is defined
UsesDefault(i) ==
  ~Truthy(Eff(i).required) /\ AbsentVar(i) /\ DefaultDefined(Eff(i).default)

\* the default of type type after the coercion of that type, if it has one
CoercedDefault(v, type) == IF type \in CoercibleTypes THEN coerceValue(v, type) ELSE Return(v)

HasStage(i, name) == \E k \in 1..Len(Out(i).stages) : Out(i).stages[k].stage = name

\* C7 as stated: a default that is used goes to the transform stage without
\* coercion and without built-in validation, and without a transform it is
\* written to data exactly as the schema gives it.
C7_DefaultBypassesValidation ==
  Validated =>
    \A i \in 1..Len(call.outcomes) :
      (UsesDefault(i) /\ ~Out(i).thrown) =>
        /\ ~HasStage(i, "coerce")
        /\ ~HasStage(i, "builtin")
        /\ (Out(i).written /\ Eff(i).transform = "none") =>
             Out(i).value = ResolveDefault(Eff(i).default).v

\* C7 (amended): a default that is used is the working value of the same
\* stages a present value goes through: it is coerced when the type is
\* string, number, boolean or port, and a default the coercion rejects is an
\* error; it is written only after the built-in validator accepted it, and
\* without a transform the value written is the coerced default.  An
\* exception of a default producer leaves validateEnv.
C7_DefaultIsValidated ==
  Validated =>
    \A i \in 1..Len(call.outcomes) :
      UsesDefault(i) =>
        LET d == ResolveDefault(Eff(i).default)
            c == CoercedDefault(d.v, Eff(i).type)
        IN  IF d.thrown THEN Out(i).thrown /\ call.thrown
            ELSE /\ ~Out(i).thrown
                 /\ Eff(i).type \in CoercibleTypes =>
                      /\ Out(i).stages # <<>>
                      /\ Out(i).stages[1] = Stage("coerce", d.v)
                 /\ c.thrown =>
                      /\ ~Out(i).written
                      /\ Len(Out(i).errors) = 1
                      /\ Out(i).errors[1].message = c.e.message
                 /\ (Out(i).written /\ Eff(i).type \in BuiltInTypes) =>
                      /\ HasStage(i, "builtin")
                      /\ BuiltInValidator(Eff(i).type, Out(i).value) = Return(True)
                 /\ (~c.thrown /\ Eff(i).transform = "none" /\ Eff(i).type \in BuiltInTypes
                       /\ BuiltInValidator(Eff(i).type, c.v) # Return(True)) =>
                      /\ ~Out(i).written
                      /\ Len(Out(i).errors) = 1
                 /\ (Out(i).written /\ Eff(i).transform = "none") => Out(i).value = c.v

\* the padded string a producer returns is written trimmed
C7_Witness ==
  /\ Returned /\ res.success
  /\ UsesDefault(1)
  /\ Eff(1).default = DefaultProducer(Str(S_padded))
  /\ Eff(1).transform = "none"
  /\ StageNames(Out(1).stages) = <<"coerce", "builtin">>
  /\ res.data[FieldNameOf(1)] = Str(trim(S_padded))
  /\ res.data[FieldNameOf(1)] # Str(S_padded)

\* the i-th field is not required, its variable is absent and it has no
\* default
Skipped(i) ==
  ~Truthy(Eff(i).required) /\ AbsentVar(i) /\ ~DefaultDefined(Eff(i).default)

\* C8: a field that is not required, absent and without default records no
\* error and its key is not in data; on success the keys of data are exactly
\* the fields whose variable is present or that have a default.
C8_SkippedOmitted ==
  Returned =>
    /\ \A i \in 1..NFields :
         Skipped(i) =>
           /\ Out(i).errors = <<>>
           /\ ~Out(i).written
           /\ \A k \in 1..Len(res.errors) : res.errors[k].field # FieldNameOf(i)
           /\ FieldNameOf(i) \notin DOMAIN res.data
    /\ res.success =>
         DOMAIN res.data =
           {FieldNameOf(i) : i \in {j \in 1..NFields : ~AbsentVar(j) \/ DefaultDefined(Eff(j).default)}}

\* a successful call with one field skipped and another one written
C8_Witness ==
  /\ Returned /\ res.success
  /\ NFields = 2
  /\ \E i, j \in 1..NFields :
       /\ Skipped(i) /\ FieldNameOf(i) \notin DOMAIN res.data
       /\ ~AbsentVar(j) /\ FieldNameOf(j) \in DOMAIN res.data

\* the i-th field is optional in its base definition and the block of
\* environment prod overrides required with true
RequiredUnderProd(i) ==
  /\ ~Truthy(compiledSchema.schema[i].required)
  /\ compiledSchema.hasEnvironments
  /\ S_prod \in DOMAIN compiledSchema.environments
  /\ FieldNameOf(i) \in DOMAIN compiledSchema.environments[S_prod]
  /\ "required" \in compiledSchema.environments[S_prod][FieldNameOf(i)].keys
  /\ compiledSchema.environments[S_prod][FieldNameOf(i)].def.required = True

\* the call recorded exactly one error for the i-th field, a RequiredError
OneRequiredError(i) ==
  /\ ~Out(i).thrown
  /\ Len(Out(i).errors) = 1
  /\ Out(i).errors[1].type = "RequiredError"

\* the call recorded nothing for the i-th field and left it out of data
Omitted(i) ==
  /\ ~Out(i).thrown
  /\ Out(i).errors = <<>>
  /\ ~Out(i).written
  /\ Returned => FieldNameOf(i) \notin DOMAIN res.data

\* C9 as stated: with F optional in the base definition, required under
\* prod and absent, environment prod gives one RequiredError and every other
\* environment argument gives a successful call with F omitted (calls that
\* an exception leaves aside).
C9_OverrideRequired ==
  Validated =>
    \A i \in 1..Len(call.outcomes) :
      (RequiredUnderProd(i) /\ AbsentVar(i) /\ ~Out(i).thrown) =>
        IF environment = Str(S_prod) THEN OneRequiredError(i)
        ELSE Omitted(i) /\ (NFields = 1 => Returned /\ res.success)

\* C9 (amended): with F optional in the base definition, required under
\* prod and absent, environment prod gives one RequiredError; with any other
\* environment argument no override is applied, so F is omitted, and a call
\* with no other field succeeds, when F has no base default, and otherwise
\* F's base default is used and F gets no RequiredError.
C9_OverrideRequiredNoDefault ==
  Validated =>
    \A i \in 1..Len(call.outcomes) :
      (RequiredUnderProd(i) /\ AbsentVar(i)) =>
        IF environment = Str(S_prod) THEN OneRequiredError(i)
        ELSE /\ Eff(i) = compiledSchema.schema[i]
             /\ IF ~DefaultDefined(compiledSchema.schema[i].default)
                THEN Omitted(i) /\ (NFields = 1 => Returned /\ res.success)
                ELSE /\ \A k \in 1..Len(Out(i).errors) : Out(i).errors[k].type # "RequiredError"
                     /\ Out(i).thrown \/ Out(i).stages # <<>> \/ Out(i).written

\* the same schema and env map: omitted under dev
C9_Witness ==
  /\ Returned /\ res.success
  /\ RequiredUnderProd(1) /\ AbsentVar(1)
  /\ environment = Str(S_dev)
  /\ ~DefaultDefined(compiledSchema.schema[1].default)
  /\ Omitted(1)

\* the result of the composed validator of fieldDef for value, taking enum
\* membership, then the type-specific constraint, then the custom predicate
\* (which a regex field with a pattern does not have)
FirstFailingCheck(fieldDef, value) ==
  IF fieldDef.enum # <<>> /\ ~includes(fieldDef.enum, value)
  THEN Return(Str(EnumMessage(fieldDef.enum)))
  ELSE IF HasTypeCheck(fieldDef) /\ TypeSpecificCheck(fieldDef, value) # Return(True)
  THEN TypeSpecificCheck(fieldDef, value)
  ELSE IF fieldDef.validate # "none" /\ ~(fieldDef.type = "regex" /\ fieldDef.hasPattern)
  THEN CustomValidator(fieldDef, value)
  ELSE Return(True)

\* the value the validator stage of the i-th field was given
ValidatorInput(i) ==
  (CHOOSE st \in {Out(i).stages[k] : k \in 1..Len(Out(i).stages)} : st.stage = "validator").input

\* C10: the composed validator checks enum membership, then the type-specific
\* constraint, then the custom predicate, and what the validator stage
\* records is the outcome of the first of these checks that fails.
C10_ValidatorOrder ==
  Validated =>
    \A i \in 1..Len(call.outcomes) :
      HasStage(i, "validator") =>
        LET r == FirstFailingCheck(compiledSchema.schema[i].def, ValidatorInput(i))
        IN  IF r.thrown
            THEN /\ Len(Out(i).errors) = 1
                 /\ Out(i).errors[1].message = r.e.message
                 /\ ~Out(i).written
            ELSE IF r.v = True
            THEN Out(i).errors = <<>> /\ Out(i).written
            ELSE /\ Len(Out(i).errors) = 1
                 /\ Out(i).errors[1].type = "FormatError"
                 /\ Out(i).errors[1].message =
                      IF TypeOf(r.v) = "string" THEN r.v.s ELSE <<"Custom validation failed">>
                 /\ ~Out(i).written

\* a value outside the enum that the type constraint and the custom
\* predicate would reject too gets the enum message
C10_Witness ==
  /\ Returned
  /\ HasStage(1, "validator")
  /\ compiledSchema.schema[1].validator = <<EnumCheck, TypeCheck, CustomCheck>>
  /\ ~includes(compiledSchema.schema[1].def.enum, ValidatorInput(1))
  /\ TypeSpecificCheck(compiledSchema.schema[1].def, ValidatorInput(1)) # Return(True)
  /\ CustomValidator(compiledSchema.schema[1].def, ValidatorInput(1)) # Return(True)
  /\ Len(res.errors) = 1
  /\ res.errors[1].message = EnumMessage(compiledSchema.schema[1].def.enum)

\* C11: every entry of errors, whichever stage produced it, has envVarName
\* equal to the upper-cased name of the field it was recorded for.
C11_EnvVarNameUpperCased ==
  Returned =>
    \A i \in 1..Len(call.outcomes) :
      \A k \in 1..Len(Out(i).errors) :
        Out(i).errors[k].envVarName = toUpperCase(FieldNameOf(i))

\* the result of validateEnv on a freshly compiled schema
Fresh(envVars, name) == validateEnv(defineSchema(rawSchema), envVars, name)

\* C12: after any sequence of earlier validateEnv calls on the same compiled
\* schema, each call gives what a freshly compiled schema gives for its env
\* map and environment name, and two calls with the same inputs give the
\* same result.
C12_ResultIsFunctionOfArguments ==
  \A k \in 1..Len(calls) :
    /\ calls[k].call = Fresh(calls[k].env, calls[k].environment)
    /\ \A j \in 1..Len(calls) :
         calls[j].env = calls[k].env /\ calls[j].environment = calls[k].environment
           => calls[j].call = calls[k].call

\* a call under environment prod whose override changed the result, followed
\* by a call with the same env map and no environment, and a repeated call
C12_Witness ==
  /\ Len(calls) = 2
  /\ compiledSchema.hasEnvironments
  /\ calls[1].environment = Str(S_prod)
  /\ calls[2].environment = Undefined
  /\ calls[1].env = calls[2].env
  /\ calls[1].call # calls[2].call
  /\ calls[1].call.result.errors # <<>>
  /\ calls[2].call.result.success

\* C13: when the iterations of two validateEnv calls on one compiled schema
\* are interleaved in any order, each call gives what it gives when it runs
\* alone on the compiled schema.
C13_InterleavedCallsIndependent ==
  \A c \in Callers :
    running[c].phase = "returned"
      => running[c].call = Fresh(running[c].env, running[c].environment)

\* two calls on a schema of two fields, with and without the overrides of
\* prod, whose iterations alternated and whose results differ
C13_Witness ==
  /\ Len(compiledSchema.schema) = 2
  /\ running["a"].phase = "returned" /\ running["b"].phase = "returned"
  /\ running["a"].turns = <<1, 3>> /\ running["b"].turns = <<2, 4>>
  /\ running["a"].environment = Str(S_prod)
  /\ running["b"].environment = Undefined
  /\ running["a"].call # running["b"].call
  /\ running["a"].call.result.errors # <<>>

\* C14: a validateEnv call, with or without overrides applied, leaves every
\* compiled field and the stored environments block as defineSchema made
\* them.
C14_CompiledSchemaUnchanged ==
  Validated => compiledSchema = defineSchema(rawSchema)

\* a call under prod whose override changed the definition of the field
C14_Witness ==
  /\ Returned
  /\ compiledSchema.hasEnvironments
  /\ environment = Str(S_prod)
  /\ Eff(1) # compiledSchema.schema[1]
  /\ Out(1).done

\* the env map of the last call gives the variable of the i-th field a value
\* that coerceValue rejects for the field's type
Uncoercible(i) ==
  /\ ~AbsentVar(i)
  /\ Eff(i).type \in {"number", "boolean", "port"}
  /\ coerceValue(env[toUpperCase(FieldNameOf(i))], Eff(i).type).thrown

CoercionFailed == coercion.result.thrown /\ coercion.result.e.ve

\* C16: coerceValue to boolean returns a boolean input unchanged; for a
\* string input it returns true exactly when the lower-cased, trimmed string
\* is one of true, 1, yes, on, false exactly when it is one of false, 0, no,
\* off, and fails with a ValidationError for every other string, the empty
\* one included.
C16_CoerceBoolean ==
  coercion.done /\ coercion.type = "boolean" =>
    LET word == trim(toLowerCase(coercion.value.s))
        isTrue == word \in { <<"t","r","u","e">>, <<"1">>, <<"y","e","s">>, <<"o","n">> }
        isFalse == word \in { <<"f","a","l","s","e">>, <<"0">>, <<"n","o">>, <<"o","f","f">> }
    IN  /\ TypeOf(coercion.value) = "boolean" => coercion.result = Return(coercion.value)
        /\ TypeOf(coercion.value) = "string" =>
             /\ coercion.result = Return(True) <=> isTrue
             /\ coercion.result = Return(False) <=> isFalse
             /\ CoercionFailed <=> ~isTrue /\ ~isFalse

\* " True " gave true, and the call was made for the empty string too
C16_Witness ==
  /\ coercion.done
  /\ coercion.type = "boolean"
  /\ coercion.value = Str(<<" ","T","r","u","e"," ">>)
  /\ coercion.result = Return(True)

AllDigits(s) == \A i \in 1..Len(s) : IsDigit(s[i])

Unsigned(s) == IF s # <<>> /\ s[1] \in {"+", "-"} THEN Tail(s) ELSE s

\* digits with an optional point: at least one digit in all
IsMantissaText(m) ==
  \/ m # <<>> /\ AllDigits(m)
  \/ \E k \in 1..Len(m) :
       /\ m[k] = "."
       /\ AllDigits(Take(m, k - 1)) /\ AllDigits(Drop(m, k))
       /\ Len(m) > 1

IsExponentText(x) == Unsigned(x) # <<>> /\ AllDigits(Unsigned(x))

\* p is a decimal literal: an optional sign, then Infinity or a mantissa with
\* an optional exponent
IsNumericLiteral(p) ==
  LET u == Unsigned(p)
  IN  \/ u = InfinityText
      \/ IsMantissaText(u)
      \/ \E k \in 1..Len(u) :
           u[k] \in {"e", "E"} /\ IsMantissaText(Take(u, k - 1)) /\ IsExponentText(Drop(u, k))

\* the number a decimal literal denotes
LiteralValue(p) ==
  LET sgn == IF p[1] = "-" THEN 0 - 1 ELSE 1
      u == Unsigned(p)
      es == {k \in 1..Len(u) : u[k] \in {"e", "E"}}
      m == IF es = {} THEN u ELSE Take(u, (CHOOSE k \in es : TRUE) - 1)
      x == IF es = {} THEN <<>> ELSE Drop(u, CHOOSE k \in es : TRUE)
      ps == {k \in 1..Len(m) : m[k] = "."}
      whole == IF ps = {} THEN m ELSE Take(m, (CHOOSE k \in ps : TRUE) - 1)
      frac == IF ps = {} THEN <<>> ELSE Drop(m, CHOOSE k \in ps : TRUE)
      e == (IF x # <<>> /\ x[1] = "-" THEN 0 - 1 ELSE 1) * DigitsVal(Unsigned(x))
      n == sgn * DigitsVal(whole \o frac)
  IN  IF u = InfinityText THEN Num(sgn, 0)
      ELSE IF e >= Len(frac) THEN Num(n * Pow10(e - Len(frac)), 1)
      ELSE Normalize(n, Pow10(Len(frac) - e))

\* the lengths of the prefixes of s that are decimal literals
NumericPrefixes(s) == {k \in 1..Len(s) : IsNumericLiteral(Take(s, k))}

LongestNumericPrefix(s) ==
  Take(s, CHOOSE k \in NumericPrefixes(s) : \A j \in NumericPrefixes(s) : j <= k)

EnvValue(i) == env[toUpperCase(FieldNameOf(i))]

\* the value the stage name of the i-th field was given
StageInput(i, name) ==
  (CHOOSE st \in {Out(i).stages[k] : k \in 1..Len(Out(i).stages)} : st.stage = name).input

\* C18: a present value is coerced only for a field of type string, number,
\* boolean or port; for a field of type url, email, ip, json or regex the
\* built-in validator is given the raw env value, and a field without
\* transform that is accepted holds the raw env string in data.
C18_RawValueForUncoercedTypes ==
  Returned =>
    \A i \in 1..NFields :
      ~AbsentVar(i) =>
        /\ HasStage(i, "coerce") <=> Eff(i).type \in {"string", "number", "boolean", "port"}
        /\ Eff(i).type \in {"url", "email", "ip", "json", "regex"} /\ Eff(i).transform = "none" =>
             /\ HasStage(i, "builtin") /\ StageInput(i, "builtin") = EnvValue(i)
             /\ Out(i).written =>
                  /\ Out(i).value = EnvValue(i)
                  /\ res.success /\ res.data[FieldNameOf(i)] = EnvValue(i)

\* a url with blanks around it is accepted and stored with the blanks
C18_Witness ==
  /\ Returned
  /\ Eff(1).type = "url"
  /\ Eff(1).transform = "none"
  /\ ~AbsentVar(1)
  /\ EnvValue(1) = Str(S_paddedUrl)
  /\ Out(1).written
  /\ res.data[FieldNameOf(1)] = Str(S_paddedUrl)

\* the i-th field is a port field without transform, enum and custom
\* predicate, and its variable has a value
PlainPortField(i) ==
  /\ ~AbsentVar(i)
  /\ Eff(i).type = "port"
  /\ Eff(i).transform = "none"
  /\ compiledSchema.schema[i].def.enum = <<>>
  /\ compiledSchema.schema[i].def.validate = "none"

\* v is an integer between 1 and 65535
IsPortNumber(v) == v.t = "number" /\ v.d = 1 /\ v.n >= 1 /\ v.n <= 65535

\* C19: a port field with a present value is accepted exactly when the
\* coerced value is an integer between 1 and 65535, and data then holds that
\* number; any other value gives one error for the field and is not written.
C19_PortRange ==
  Returned =>
    \A i \in 1..NFields :
      PlainPortField(i) =>
        LET c == coerceValue(EnvValue(i), "port")
        IN  IF ~c.thrown /\ IsPortNumber(c.v)
            THEN /\ Out(i).written /\ Out(i).errors = <<>>
                 /\ res.success /\ res.data[FieldNameOf(i)] = c.v
            ELSE /\ ~Out(i).written
                 /\ Len(Out(i).errors) = 1
                 /\ res.errors = Out(i).errors

\* "8080" gives the number 8080
C19_Witness ==
  /\ Returned
  /\ PlainPortField(1)
  /\ EnvValue(1) = Str(S_8080)
  /\ res.success
  /\ res.data[FieldNameOf(1)] = NumI(8080)

\* the i-th field is a url field compiled with a protocols option, without
\* transform, enum and custom predicate, and its variable has a value
UrlFieldWithProtocols(i) ==
  /\ ~AbsentVar(i)
  /\ Eff(i).type = "url"
  /\ Eff(i).transform = "none"
  /\ compiledSchema.schema[i].def.hasProtocols
  /\ compiledSchema.schema[i].def.enum = <<>>
  /\ compiledSchema.schema[i].def.validate = "none"

\* C20: for a url field compiled with a protocols option P, a present value
\* that parses as a URL is accepted when its scheme is in P, also when that
\* scheme is not http:, https: or ftp:, and rejected when its scheme is not
\* in P.
C20_ProtocolsReplaceDefaults ==
  Returned =>
    \A i \in 1..NFields :
      UrlFieldWithProtocols(i) /\ ParseUrl(trim(EnvValue(i).s)).ok =>
        IF includes(compiledSchema.schema[i].def.protocols, ParseUrl(trim(EnvValue(i).s)).protocol)
        THEN Out(i).written /\ res.success
        ELSE ~Out(i).written /\ Len(Out(i).errors) = 1

\* the i-th field is a json field without enum and custom predicate whose
\* variable holds a JSON text
JsonFieldWithJsonText(i) ==
  /\ ~AbsentVar(i)
  /\ Eff(i).type = "json"
  /\ compiledSchema.schema[i].def.enum = <<>>
  /\ compiledSchema.schema[i].def.validate = "none"
  /\ JsonParses(trim(EnvValue(i).s))

\* C21: a json field whose value parses as JSON is accepted; without a
\* transform data holds the raw string, and with a transform that parses the
\* string data holds the parsed value the transform returned.
C21_JsonParseTransformAccepted ==
  Returned =>
    \A i \in 1..NFields :
      JsonFieldWithJsonText(i) =>
        /\ Eff(i).transform = "none" =>
             Out(i).written /\ res.data[FieldNameOf(i)] = EnvValue(i)
        /\ Eff(i).transform = "jsonParse" =>
             Out(i).written /\ res.data[FieldNameOf(i)] = JsonParse(EnvValue(i).s).v

\* the i-th field is a regex field compiled with a pattern, without
\* transform and enum, and its variable has a value
RegexFieldWithPattern(i) ==
  /\ ~AbsentVar(i)
  /\ Eff(i).type = "regex"
  /\ Eff(i).transform = "none"
  /\ compiledSchema.schema[i].def.hasPattern
  /\ compiledSchema.schema[i].def.enum = <<>>

\* C22: a regex field compiled with a pattern accepts a present value, and
\* writes it to data, exactly when the value matches the pattern, and
\* otherwise records one error for the field.
C22_RegexAcceptsMatches ==
  Returned =>
    \A i \in 1..NFields :
      RegexFieldWithPattern(i) =>
        IF PatternTest(compiledSchema.schema[i].def.pattern, EnvValue(i).s)
        THEN Out(i).written /\ res.data[FieldNameOf(i)] = EnvValue(i)
        ELSE ~Out(i).written /\ Len(Out(i).errors) = 1

\* the positions, in the raw schema, of the keys other than _environments
FieldKeys == {i \in 1..Len(rawSchema.fields) : rawSchema.fields[i].name # EnvironmentsKey}

\* the positions of the definitions that are not objects or have no type
Offenders == {i \in FieldKeys : ~rawSchema.fields[i].isObject \/ rawSchema.fields[i].type = ""}

\* C23: defineSchema throws a SchemaError exactly when a key other than
\* _environments has a definition that is not an object or lacks a type;
\* schemaPath is then the name of the first such key and no compiled schema
\* exists; otherwise the compiled schema has one entry for every key, in
\* order, with required false where the definition gives none.
C23_SchemaErrorOrFullSchema ==
  pc # "start" =>
    /\ compiledSchema.thrown <=> Offenders # {}
    /\ compiledSchema.thrown =>
         /\ pc = "schemaError"
         /\ compiledSchema.schema = <<>>
         /\ \E i \in Offenders :
              /\ \A j \in Offenders : i <= j
              /\ compiledSchema.schemaPath = rawSchema.fields[i].name
    /\ ~compiledSchema.thrown =>
         /\ Len(compiledSchema.schema) = Cardinality(FieldKeys)
         /\ \A i \in FieldKeys :
              /\ compiledSchema.schema[i].name = rawSchema.fields[i].name
              /\ compiledSchema.schema[i].type = rawSchema.fields[i].type
              /\ compiledSchema.schema[i].required =
                   (IF rawSchema.fields[i].required = Undefined THEN False
                    ELSE rawSchema.fields[i].required)

\* a valid first field and a second one without type: the error names the
\* second, and nothing of the first is kept
C23_Witness ==
  /\ pc = "schemaError"
  /\ Len(rawSchema.fields) = 2
  /\ Offenders = {2}
  /\ rawSchema.fields[2].type = ""
  /\ compiledSchema.thrown
  /\ compiledSchema.schemaPath = HostName
  /\ compiledSchema.schema = <<>>

\* the transform of the i-th field was applied and threw
TransformThrew(i) ==
  /\ HasStage(i, "transform")
  /\ CallTransform(Eff(i).transform, StageInput(i, "transform")).thrown

\* C24: when the transform of a field throws, the field gets exactly one
\* error, of type TransformError and with the field's name, neither the
\* built-in validator nor the composed validator runs for it, it is not
\* written to data, and the loop goes on to the next field.
C24_TransformError ==
  Validated =>
    \A i \in 1..Len(call.outcomes) :
      TransformThrew(i) =>
        /\ Len(Out(i).errors) = 1
        /\ Out(i).errors[1].type = "TransformError"
        /\ Out(i).errors[1].field = FieldNameOf(i)
        /\ Out(i).errors[1].envVarName = toUpperCase(FieldNameOf(i))
        /\ ~HasStage(i, "builtin") /\ ~HasStage(i, "validator")
        /\ ~Out(i).written
        /\ ~Out(i).thrown
        /\ i < NFields => Len(call.outcomes) > i
        /\ Returned => ~res.success /\ \E k \in 1..Len(res.errors) : res.errors[k] = Out(i).errors[1]

\* the transform of the first of two fields throws and the second field is
\* still validated and gets its own error
C24_Witness ==
  /\ Returned
  /\ NFields = 2
  /\ TransformThrew(1)
  /\ Eff(1).type = "string"
  /\ Len(res.errors) = 2
  /\ res.errors[1].type = "TransformError"
  /\ res.errors[1].message = <<"Transform failed: ", "Transform failed">>
  /\ res.errors[2] = Out(2).errors[1]

\* the composed validator of the i-th field ran and reached the custom
\* predicate: the enum and type checks before it accepted the value
PredicateReached(i) ==
  /\ HasStage(i, "validator")
  /\ \E k \in 1..Len(Eff(i).validator) : Eff(i).validator[k] = CustomCheck
  /\ \A k \in 1..Len(Eff(i).validator) :
       Eff(i).validator[k] # CustomCheck
         => RunCheck(Eff(i).validator[k], compiledSchema.schema[i].def, ValidatorInput(i)) = Return(True)

\* what the custom predicate of the i-th field did with the value it was given
PredicateOutcome(i) == CallValidate(compiledSchema.schema[i].def.validate, ValidatorInput(i))

OnlyKey(key) == [k \in DOMAIN env \cap {key} |-> env[k]]

\* C26: the iteration of a field reads the env map only under the
\* upper-cased field name, so an entry under any other key (the same name in
\* lower case, say) leaves the field absent, and data has a key exactly for
\* each accepted field, the field name as the schema declares it.
C26_UpperCasedLookupDeclaredKey ==
  Validated =>
    /\ \A i \in 1..Len(call.outcomes) :
         /\ Out(i) = ProcessField(compiledSchema.schema[i],
                                  EnvOverrides(compiledSchema, environment),
                                  OnlyKey(toUpperCase(FieldNameOf(i))))
         /\ AbsentVar(i) =>
              Out(i) = ProcessField(compiledSchema.schema[i],
                                    EnvOverrides(compiledSchema, environment), EmptyEnv)
    /\ Returned /\ res.success =>
         /\ DOMAIN res.data = {FieldNameOf(i) : i \in {j \in 1..NFields : Out(j).written}}
         /\ \A i \in 1..NFields : Out(i).written => res.data[FieldNameOf(i)] = Out(i).value

\* the env map has host in lower case and DBG: the optional field host is
\* absent, and the field Dbg is stored under Dbg
C26_Witness ==
  /\ Returned
  /\ NFields = 2
  /\ FieldNameOf(1) = HostName /\ FieldNameOf(2) = DebugName
  /\ DOMAIN env = {HostName, toUpperCase(DebugName)}
  /\ res.success
  /\ DOMAIN res.data = {DebugName}
  /\ res.data[DebugName] = True

\* C27: a custom predicate passes only when it returns exactly true; any
\* other return value gives the field one FormatError, whose message is the
\* returned value when that is a non-empty string, and 'Custom validation
\* failed' when it is false, undefined, null, 0 or the empty string.
C27_PredicateResult ==
  Validated =>
    \A i \in 1..Len(call.outcomes) :
      PredicateReached(i) /\ ~PredicateOutcome(i).thrown =>
        LET r == PredicateOutcome(i).v
        IN  IF r = True THEN Out(i).written /\ Out(i).errors = <<>>
            ELSE /\ ~Out(i).written
                 /\ Len(Out(i).errors) = 1
                 /\ Out(i).errors[1].type = "FormatError"
                 /\ r.t = "string" /\ r.s # <<>> => Out(i).errors[1].message = r.s
                 /\ r \in {False, Undefined, Null, NumI(0), Str(<<>>)}
                      => Out(i).errors[1].message = <<"Custom validation failed">>

\* a predicate that returns 0
C27_Witness ==
  /\ Returned
  /\ PredicateReached(1)
  /\ PredicateOutcome(1) = Return(NumI(0))
  /\ Len(res.errors) = 1
  /\ res.errors[1].type = "FormatError"
  /\ res.errors[1].message = <<"Custom validation failed">>

\* the keys of an effective schema that an iteration of validateEnv reads
\* and a partial field definition can supply
EngineKeys == {"required", "default", "type", "transform"}

\* the constraint keys of a field definition
ConstraintKeys ==
  {"enum", "min", "max", "minLength", "maxLength", "protocols", "version", "pattern", "validate"}

\* the overrides with their keys cut down to keys
OverridesWith(envOverrides, keys) ==
  [f \in DOMAIN envOverrides |-> Override(envOverrides[f].keys \cap keys, envOverrides[f].def)]

\* the override the call applied to field i supplies constraint keys only
ConstraintOverride(i) ==
  /\ FieldNameOf(i) \in DOMAIN EnvOverrides(compiledSchema, environment)
  /\ EnvOverrides(compiledSchema, environment)[FieldNameOf(i)].keys # {}
  /\ EnvOverrides(compiledSchema, environment)[FieldNameOf(i)].keys \subseteq ConstraintKeys

\* C28: an override acts on a field's outcome only through its keys
\* required, default, type and transform; an override of constraint keys
\* (enum, min, max, minLength, maxLength, protocols, version, pattern,
\* validate) leaves the outcome what it is without the override.
C28_ConstraintOverridesIgnored ==
  Validated =>
    \A i \in 1..Len(call.outcomes) :
      /\ Out(i) = ProcessField(compiledSchema.schema[i],
                               OverridesWith(EnvOverrides(compiledSchema, environment), EngineKeys), env)
      /\ ConstraintOverride(i) => Out(i) = ProcessField(compiledSchema.schema[i], <<>>, env)

\* a string field whose override for "prod" has enum ['ab'], minLength 3 and
\* a validate that returns false accepts '5' in environment "prod"
C28_Witness ==
  /\ Returned
  /\ NFields = 1
  /\ ConstraintOverride(1)
  /\ "validate" \in EnvOverrides(compiledSchema, environment)[KeyName].keys
  /\ compiledSchema.schema[1].type = "string"
  /\ ~AbsentVar(1)
  /\ EnvValue(1) = Str(S_5)
  /\ res.success
  /\ res.data[KeyName] = Str(S_5)

\* the variable of the i-th field is set to the empty string
EmptyVar(i) == ~AbsentVar(i) /\ EnvValue(i) = Str(<<>>)

\* the i-th field is a string field without length constraint, enum,
\* transform or custom predicate
PlainStringField(i) ==
  /\ Eff(i).type = "string"
  /\ Eff(i).transform = "none"
  /\ compiledSchema.schema[i].def.type = "string"
  /\ compiledSchema.schema[i].def.minLength = Undefined
  /\ compiledSchema.schema[i].def.maxLength = Undefined
  /\ compiledSchema.schema[i].def.enum = <<>>
  /\ compiledSchema.schema[i].def.validate = "none"

\* C29: a variable set to the empty string is present: the field gets no
\* RequiredError, its default is not used, the empty string is what the
\* coercion and the stages after it work on, and a plain string field,
\* required or not, accepts it and data holds the empty string.
C29_EmptyStringIsPresent ==
  Validated =>
    \A i \in 1..Len(call.outcomes) :
      EmptyVar(i) =>
        /\ \A k \in 1..Len(Out(i).errors) : Out(i).errors[k].type # "RequiredError"
        /\ ~Out(i).thrown
        /\ Out(i).stages # <<>> => Out(i).stages[1].input = Str(<<>>)
        /\ HasStage(i, "coerce") <=> Eff(i).type \in CoercibleTypes
        /\ Out(i) = Pipeline(FieldState(Str(<<>>)), Eff(i), FieldNameOf(i), toUpperCase(FieldNameOf(i)))
        /\ PlainStringField(i) =>
             /\ Out(i).errors = <<>>
             /\ Out(i).written
             /\ Out(i).value = Str(<<>>)

\* a required string field with a default, set to the empty string
C29_Witness ==
  /\ Returned
  /\ NFields = 1
  /\ EmptyVar(1)
  /\ PlainStringField(1)
  /\ Eff(1).required = True
  /\ DefaultDefined(Eff(1).default)
  /\ res.success
  /\ res.data[KeyName] = Str(<<>>)

\* the i-th field has a type outside the nine field types
UnknownType(i) ==
  /\ compiledSchema.schema[i].def.type \notin BuiltInTypes
  /\ Eff(i).type \notin BuiltInTypes

\* C30: a definition whose type is a truthy value outside the nine field
\* types compiles, and validateEnv applies neither coercion nor a built-in
\* validator to the field: a present value without transform and composed
\* validator is written to data unchanged.
C30_UnknownTypeUnvalidated ==
  /\ (pc # "start" /\ \A k \in 1..Len(rawSchema.fields) :
        rawSchema.fields[k].isObject /\ rawSchema.fields[k].type # "")
       => ~compiledSchema.thrown
  /\ Validated =>
       \A i \in 1..Len(call.outcomes) :
         UnknownType(i) /\ ~AbsentVar(i) =>
           /\ ~HasStage(i, "coerce")
           /\ ~HasStage(i, "builtin")
           /\ Eff(i).transform = "none" /\ Eff(i).validator = <<>> =>
                /\ Out(i).errors = <<>>
                /\ Out(i).written
                /\ Out(i).value = EnvValue(i)

\* the same for the types that are no property name of validators, own or
\* inherited
C30_NoPropertyOfValidators ==
  Validated =>
    \A i \in 1..Len(call.outcomes) :
      UnknownType(i) /\ ~HasBuiltInValidator(Eff(i).type) /\ ~AbsentVar(i) =>
        /\ ~HasStage(i, "coerce")
        /\ ~HasStage(i, "builtin")
        /\ Eff(i).transform = "none" /\ Eff(i).validator = <<>> =>
             /\ Out(i).errors = <<>>
             /\ Out(i).written
             /\ Out(i).value = EnvValue(i)

====
